---- MODULE Spec2Model ----
(***************************************************************************)
(* Model of the live task orchestrator's scheduler engine                  *)
(* (src/scripts/orchestrator): the dispatch loop of scheduler_engine.main, *)
(* the policy engine of scheduler_policy, the worker supervisor of         *)
(* scheduler_worker and the scope gate of scheduler_runtime.               *)
(*                                                                         *)
(* Wall-clock time is the integer variable now; every time.time() read of  *)
(* one step sees the same value, and Tick advances it between steps.       *)
(* A worker process is observed only through proc.poll(), so its outcome   *)
(* (still running, exit code, log text, changed files, validation result)  *)
(* is drawn when the loop examines it.  Texts (error summaries, block      *)
(* reasons) are records naming the message template and its arguments.     *)
(* TaskRuntime.finished_at is written but never read and is left out.      *)
(* The event sink and the state-file write are assumed not to raise.       *)
(***************************************************************************)
EXTENDS Integers, Sequences, FiniteSets, TLC

\* The wall clock runs from 0 up to MaxTime.
MaxTime == 2

\* Python's None in an Optional[float] / Optional[int] / Optional[Path] field.
None == 0 - 1

Max(a, b) == IF a >= b THEN a ELSE b
Min(a, b) == IF a <= b THEN a ELSE b

FailureKinds == {"quota", "compile", "runtime", "test", "infra", "unknown"}

(***************************************************************************)
(* Manifests: the loaded task sets (load_manifest).  Task ids are numbers  *)
(* ordered as the id strings are.  order is the dict iteration order       *)
(* (manifest order), depends_on the ordered dependency lists,              *)
(* allowed_files the parsed allowed sets (empty only with                  *)
(* --allow-empty-allowed-files).                                           *)
(***************************************************************************)
OneTask ==
  [order |-> <<1>>, depends_on |-> << <<>> >>, allowed_files |-> << {"a"} >>]

\* 1 waits for 2, 2 waits for 3: the dict order is not a topological order.
Chain ==
  [order |-> <<1, 2, 3>>,
   depends_on |-> << <<2>>, <<3>>, <<>> >>,
   allowed_files |-> << {"a"}, {}, {"a"} >>]

\* 1 and 2 are independent, 3 waits for both.
Join ==
  [order |-> <<1, 2, 3>>,
   depends_on |-> << <<>>, <<>>, <<1, 2>> >>,
   allowed_files |-> << {"a"}, {"a"}, {"a"} >>]

\* Two independent tasks, listed in the manifest in descending id order.
Pair ==
  [order |-> <<2, 1>>,
   depends_on |-> << <<>>, <<>> >>,
   allowed_files |-> << {"a"}, {"a"} >>]

(***************************************************************************)
(* Command lines (parse_args / validate_args): every value satisfies the   *)
(* lower bounds validate_args enforces.  profiles is len(profiles).        *)
(***************************************************************************)
RichArgs ==
  [max_parallel |-> 2, max_attempts |-> 2, quota_cooldown_seconds |-> 1,
   quota_max_failures_per_task |-> 2, quota_fail_fast |-> FALSE,
   escalate_after_compile |-> 1, escalate_after_runtime |-> 2,
   worker_timeout_seconds |-> 0, dry_run |-> FALSE, profiles |-> 2,
   allow_empty_allowed_files |-> TRUE]

PoorArgs ==
  [RichArgs EXCEPT !.max_attempts = 1, !.quota_max_failures_per_task = 1,
                   !.worker_timeout_seconds = 1]

\* Both escalation thresholds at their default.
SteadyArgs == [RichArgs EXCEPT !.escalate_after_compile = 2]

\* A ladder of three profiles.
TallArgs == [RichArgs EXCEPT !.profiles = 3]

DefaultQuota == [cooldown_until |-> 0, last_detected_at |-> None, total_failures |-> 0]

\* A QuotaRuntime restored from a state file whose cooldown is still active.
RestoredQuota == [cooldown_until |-> 1, last_detected_at |-> 0, total_failures |-> 1]

(***************************************************************************)
(* What the workers of a run can do: kinds are the classifications their   *)
(* log tails and validation diagnostics can get, faults says whether       *)
(* launching and post-processing can raise.                                *)
(***************************************************************************)
AnyWorker == [kinds |-> {"quota", "compile", "runtime", "test"}, faults |-> TRUE]
PlainWorker == [kinds |-> {"quota", "test"}, faults |-> FALSE]
CodeWorker == [kinds |-> {"compile", "runtime"}, faults |-> FALSE]

\* The runs explored: command line, manifest, restored quota runtime, workers.
Run(a, m, q, e) == [args |-> a, manifest |-> m, quota |-> q, env |-> e]

Runs ==
  { Run(RichArgs, OneTask, DefaultQuota, AnyWorker),
    Run(RichArgs, OneTask, RestoredQuota, AnyWorker),
    Run(PoorArgs, Chain, DefaultQuota, AnyWorker),
    Run(PoorArgs, Join, DefaultQuota, AnyWorker),
    Run([PoorArgs EXCEPT !.max_parallel = 1], Join, DefaultQuota, AnyWorker),
    Run([RichArgs EXCEPT !.dry_run = TRUE, !.max_parallel = 3], Join, RestoredQuota, AnyWorker),
    Run([RichArgs EXCEPT !.dry_run = TRUE], Chain, DefaultQuota, PlainWorker),
    Run(SteadyArgs, OneTask, DefaultQuota, CodeWorker),
    Run(TallArgs, OneTask, DefaultQuota, CodeWorker),
    Run([RichArgs EXCEPT !.quota_fail_fast = TRUE], Pair, DefaultQuota, PlainWorker) }

\* A text built from a message template: tag names the template, n / kind /
\* files are its arguments (unused ones are None / "" / {}).
Msg(tag, n, kind, files) == [tag |-> tag, n |-> n, kind |-> kind, files |-> files]
NoMsg == Msg("none", None, "", {})

Ev(event, t) == [event |-> event, task_id |-> t]

DefaultRuntime ==
  [status |-> "pending", attempts |-> 0, profile_index |-> 0,
   compile_failures_total |-> 0, runtime_failures_total |-> 0,
   quota_failures_total |-> 0, other_failures_total |-> 0,
   compile_failures_level |-> 0, runtime_failures_level |-> 0,
   last_failure_kind |-> "none", last_error |-> NoMsg, block_reason |-> NoMsg,
   started_at |-> None, worktree_path |-> None, log_file |-> None,
   next_eligible_at |-> None, last_changed_files |-> {}]

VARIABLES
  args,        \* the parsed command line
  manifest,    \* the loaded TaskSpecs
  env,         \* what the workers of this run can do
  rt,          \* task id -> TaskRuntime
  quota,       \* QuotaRuntime
  quota_wait_announced_until,
  running,     \* the running dict: task ids in insertion order
  now,         \* wall clock
  pc,          \* position of the dispatch loop
  reap_queue,  \* list(running.items()) still to examine in this iteration
  finished_ids,
  now_ts, capacity, ready_slice, launch_idx,   \* locals of the iteration
  call,        \* what the last step did: operation, task, inputs, result
  events,      \* events emitted by the last step
  exit_code,
  state_file,  \* the content of the state file
  text,        \* the text handed to classify_failure
  payload      \* the "tasks" list of the manifest file handed to load_manifest

vars == <<text, payload, args, manifest, env, rt, quota, quota_wait_announced_until, running, now, pc,
          reap_queue, finished_ids, now_ts, capacity, ready_slice, launch_idx,
          call, events, exit_code, state_file>>

(***************************************************************************)
(* Policy engine (scheduler_policy.py).  A world w holds what the policy   *)
(* functions mutate: the task runtimes, the quota runtime and the events   *)
(* emitted so far in the step; routed is the failure kind that             *)
(* retry_or_block_task was last called with in the step ("" if it was      *)
(* not called).                                                            *)
(***************************************************************************)
World(r, q, e) == [rt |-> r, quota |-> q, ev |-> e, routed |-> ""]

Emit(w, e) == [w EXCEPT !.ev = Append(@, e)]

TaskIds == {manifest.order[i] : i \in 1..Len(manifest.order)}

DepSet(t) == {manifest.depends_on[t][i] : i \in 1..Len(manifest.depends_on[t])}

task_ready_ignoring_dependencies(r, t, time) ==
  /\ r[t].status = "pending"
  /\ ~(r[t].next_eligible_at # None /\ time < r[t].next_eligible_at)

task_ready(r, t, time) ==
  /\ r[t].status = "pending"
  /\ ~(r[t].next_eligible_at # None /\ time < r[t].next_eligible_at)
  /\ \A i \in 1..Len(manifest.depends_on[t]) :
        r[manifest.depends_on[t][i]].status = "completed"

all_done_ignoring_pending(r) == \A t \in TaskIds : r[t].status # "running"

all_done(r) == \A t \in TaskIds : r[t].status \in {"completed", "blocked"}

mark_task_blocked_without_reason(w, t, reason) ==
  Emit([w EXCEPT !.rt[t].status = "blocked",
                 !.rt[t].next_eligible_at = None,
                 !.rt[t].last_error = reason],
       Ev("task_blocked", t))

mark_task_blocked(w, t, reason) ==
  Emit([w EXCEPT !.rt[t].status = "blocked",
                 !.rt[t].block_reason = reason,
                 !.rt[t].next_eligible_at = None,
                 !.rt[t].last_error = reason],
       Ev("task_blocked", t))

activate_quota_cooldown_restarting_window(w, t, time, cooldown_seconds) ==
  Emit([w EXCEPT !.quota = [cooldown_until |-> time + cooldown_seconds,
                            last_detected_at |-> time,
                            total_failures |-> @.total_failures + 1]],
       Ev("quota_cooldown", t))

\* The returned value is the resulting world's quota.cooldown_until.
activate_quota_cooldown(w, t, time, cooldown_seconds) ==
  LET new_until == time + cooldown_seconds
      previous_until == w.quota.cooldown_until
  IN Emit([w EXCEPT !.quota = [cooldown_until |-> Max(previous_until, new_until),
                               last_detected_at |-> time,
                               total_failures |-> @.total_failures + 1]],
          Ev("quota_cooldown", t))

RECURSIVE BlockPendingFrom(_, _, _)
BlockPendingFrom(w, i, reason) ==
  IF i > Len(manifest.order) THEN w
  ELSE LET t == manifest.order[i]
       IN BlockPendingFrom(IF w.rt[t].status # "pending" THEN w
                           ELSE mark_task_blocked(w, t, reason),
                           i + 1, reason)

block_all_pending_tasks_for_quota_sparing_all(w, reason) == w

block_all_pending_tasks_for_quota(w, reason) == BlockPendingFrom(w, 1, reason)

at_top_profile_off_by_one(r, a) == r.profile_index >= a.profiles

\* No higher profile exists.
at_top_profile(r, a) == r.profile_index >= a.profiles - 1

should_escalate_strict(r, kind, a) ==
  \/ (kind = "compile" /\ r.compile_failures_level > a.escalate_after_compile)
  \/ (kind = "runtime" /\ r.runtime_failures_level > a.escalate_after_runtime)

\* The level counter of the failure's kind has reached its threshold.
should_escalate(r, kind, a) ==
  \/ (kind = "compile" /\ r.compile_failures_level >= a.escalate_after_compile)
  \/ (kind = "runtime" /\ r.runtime_failures_level >= a.escalate_after_runtime)

maybe_escalate_keeping_levels(w, t, kind, a) ==
  LET r == w.rt[t] IN
  IF kind \notin {"compile", "runtime"}
  THEN [w EXCEPT !.rt[t].other_failures_total = @ + 1,
                 !.rt[t].compile_failures_level = 0,
                 !.rt[t].runtime_failures_level = 0]
  ELSE LET w1 == IF kind = "compile"
                 THEN [w EXCEPT !.rt[t].compile_failures_total = @ + 1,
                                !.rt[t].compile_failures_level = @ + 1]
                 ELSE [w EXCEPT !.rt[t].runtime_failures_total = @ + 1,
                                !.rt[t].runtime_failures_level = @ + 1]
           r1 == w1.rt[t]
       IN IF ~should_escalate(r1, kind, a) THEN w1
          ELSE IF at_top_profile(r1, a) THEN w1
          ELSE Emit([w1 EXCEPT !.rt[t].profile_index = @ + 1], Ev("escalation", t))

maybe_escalate(w, t, kind, a) ==
  LET r == w.rt[t] IN
  IF kind \notin {"compile", "runtime"}
  THEN [w EXCEPT !.rt[t].other_failures_total = @ + 1,
                 !.rt[t].compile_failures_level = 0,
                 !.rt[t].runtime_failures_level = 0]
  ELSE LET w1 == IF kind = "compile"
                 THEN [w EXCEPT !.rt[t].compile_failures_total = @ + 1,
                                !.rt[t].compile_failures_level = @ + 1]
                 ELSE [w EXCEPT !.rt[t].runtime_failures_total = @ + 1,
                                !.rt[t].runtime_failures_level = @ + 1]
           r1 == w1.rt[t]
       IN IF ~should_escalate(r1, kind, a) THEN w1
          ELSE IF at_top_profile(r1, a) THEN w1
          ELSE Emit([w1 EXCEPT !.rt[t].profile_index = @ + 1,
                               !.rt[t].compile_failures_level = 0,
                               !.rt[t].runtime_failures_level = 0],
                    Ev("escalation", t))

quota_threshold_never(r, a) == FALSE

quota_threshold_exceeded(r, a) ==
  r.quota_failures_total > a.quota_max_failures_per_task

\* The task has used up its quota failures.
quota_threshold_reached(r, a) ==
  r.quota_failures_total >= a.quota_max_failures_per_task

max_attempts_exceeded(r, a) == r.attempts > a.max_attempts

\* The task has used up its launch attempts.
max_attempts_reached(r, a) == r.attempts >= a.max_attempts

retry_or_block_task(w, t, kind, error_summary, time, a) ==
  LET w0 == [w EXCEPT !.rt[t].last_failure_kind = kind,
                      !.rt[t].last_error = error_summary,
                      !.rt[t].next_eligible_at = None,
                      !.routed = kind]
  IN IF kind = "quota"
     THEN LET w1 == [w0 EXCEPT !.rt[t].quota_failures_total = @ + 1,
                               !.rt[t].other_failures_total = @ + 1,
                               !.rt[t].compile_failures_level = 0,
                               !.rt[t].runtime_failures_level = 0]
              w2 == activate_quota_cooldown(w1, t, time, a.quota_cooldown_seconds)
              cooldown_until == w2.quota.cooldown_until
          IN IF a.quota_fail_fast
             THEN LET reason == Msg("quota fail-fast", cooldown_until, "", {})
                  IN Emit(block_all_pending_tasks_for_quota(
                              mark_task_blocked(w2, t, reason), reason),
                          Ev("quota_fail_fast", t))
             ELSE IF quota_threshold_reached(w2.rt[t], a)
             THEN mark_task_blocked(
                      w2, t, Msg("quota threshold reached",
                                 w2.rt[t].quota_failures_total, "", {}))
             ELSE Emit([w2 EXCEPT !.rt[t].status = "pending",
                                  !.rt[t].next_eligible_at = cooldown_until],
                       Ev("task_retry", t))
     ELSE LET w1 == maybe_escalate(w0, t, kind, a)
          IN IF max_attempts_reached(w1.rt[t], a)
             THEN mark_task_blocked(
                      w1, t, Msg("max attempts reached", w1.rt[t].attempts, kind, {}))
             ELSE Emit([w1 EXCEPT !.rt[t].status = "pending",
                                  !.rt[t].next_eligible_at = None],
                       Ev("task_retry", t))

\* One pass of the for loop over tasks.values(), from position i on.
RECURSIVE PropagatePass(_, _, _)
PropagatePass(w, i, changed) ==
  IF i > Len(manifest.order) THEN [w |-> w, changed |-> changed]
  ELSE LET t == manifest.order[i]
           deps == manifest.depends_on[t]
           blocked_idx == {k \in 1..Len(deps) : w.rt[deps[k]].status = "blocked"}
       IN IF w.rt[t].status # "pending" \/ blocked_idx = {}
          THEN PropagatePass(w, i + 1, changed)
          ELSE LET blocked_dep == deps[CHOOSE k \in blocked_idx :
                                          \A j \in blocked_idx : k <= j]
               IN PropagatePass(
                      mark_task_blocked(w, t, Msg("dependency is blocked",
                                                  blocked_dep, "", {})),
                      i + 1, TRUE)

propagate_dependency_blocks_never(w) == w

propagate_dependency_blocks_single_pass(w) == PropagatePass(w, 1, FALSE).w

RECURSIVE propagate_dependency_blocks(_)
propagate_dependency_blocks(w) ==
  LET p == PropagatePass(w, 1, FALSE)
  IN IF p.changed THEN propagate_dependency_blocks(p.w) ELSE p.w

(***************************************************************************)
(* Scope gate and worker supervisor (scheduler_runtime.py,                 *)
(* scheduler_worker.py).                                                   *)
(***************************************************************************)
within_allowed_files_any(changed_files, allowed_files) ==
  IF allowed_files = {} THEN TRUE
  ELSE \E path \in changed_files : path \in allowed_files

within_allowed_files_strict(changed_files, allowed_files) ==
  \A path \in changed_files : path \in allowed_files

within_allowed_files(changed_files, allowed_files) ==
  IF allowed_files = {} THEN TRUE
  ELSE \A path \in changed_files : path \in allowed_files

(***************************************************************************)
(* launch_task.  outcome is "ok" (the process was spawned) or "raise" (an  *)
(* exception left launch_task: worktree setup, prompt write, template      *)
(* expansion or spawn failed).  ensure_worktree records worktree_path      *)
(* before anything in it can raise.  The result holds the world and        *)
(* whether a process was returned.                                         *)
(***************************************************************************)
launch_task_counting_spawned(w, t, time, a, outcome) ==
  LET w1 == [w EXCEPT !.rt[t].status = "running",
                      !.rt[t].started_at = time,
                      !.rt[t].block_reason = NoMsg,
                      !.rt[t].next_eligible_at = None]
  IN IF a.dry_run
     THEN [w |-> Emit([w1 EXCEPT !.rt[t].status = "completed"],
                      Ev("task_completed", t)),
           proc |-> FALSE, raised |-> FALSE]
     ELSE LET w2 == [w1 EXCEPT !.rt[t].worktree_path =
                                   IF @ # None THEN @ ELSE t]
          IN IF outcome = "raise"
             THEN [w |-> w2, proc |-> FALSE, raised |-> TRUE]
             ELSE [w |-> Emit([w2 EXCEPT !.rt[t].attempts = @ + 1,
                                         !.rt[t].log_file = w2.rt[t].attempts + 1],
                              Ev("task_launched", t)),
                   proc |-> TRUE, raised |-> FALSE]

launch_task_ignoring_dry_run(w, t, time, a, outcome) ==
  LET w1 == [w EXCEPT !.rt[t].attempts = @ + 1,
                      !.rt[t].status = "running",
                      !.rt[t].started_at = time,
                      !.rt[t].block_reason = NoMsg,
                      !.rt[t].next_eligible_at = None]
      w2 == [w1 EXCEPT !.rt[t].worktree_path = IF @ # None THEN @ ELSE t]
  IN IF outcome = "raise"
     THEN [w |-> w2, proc |-> FALSE, raised |-> TRUE]
     ELSE [w |-> Emit([w2 EXCEPT !.rt[t].log_file = w2.rt[t].attempts],
                      Ev("task_launched", t)),
           proc |-> TRUE, raised |-> FALSE]

launch_task(w, t, time, a, outcome) ==
  LET w1 == [w EXCEPT !.rt[t].attempts = @ + 1,
                      !.rt[t].status = "running",
                      !.rt[t].started_at = time,
                      !.rt[t].block_reason = NoMsg,
                      !.rt[t].next_eligible_at = None]
  IN IF a.dry_run
     THEN [w |-> Emit([w1 EXCEPT !.rt[t].status = "completed"],
                      Ev("task_completed", t)),
           proc |-> FALSE, raised |-> FALSE]
     ELSE LET w2 == [w1 EXCEPT !.rt[t].worktree_path =
                                   IF @ # None THEN @ ELSE t]
          IN IF outcome = "raise"
             THEN [w |-> w2, proc |-> FALSE, raised |-> TRUE]
             ELSE [w |-> Emit([w2 EXCEPT !.rt[t].log_file = w2.rt[t].attempts],
                              Ev("task_launched", t)),
                   proc |-> TRUE, raised |-> FALSE]

(***************************************************************************)
(* handle_finished_worker.  o is what the supervisor observes:             *)
(*   returncode       the worker's exit code                               *)
(*   kind             classify_failure of the log tail                     *)
(*   changed_files    changed_files_in_worktree                            *)
(*   ok, vkind        run_validation_commands' verdict and the             *)
(*                    classification of its diagnostic                     *)
(*   fault            "none", or where an exception is raised: "query"     *)
(*                    (reading the log or querying the working copy) or    *)
(*                    "validation" (running the validation commands)       *)
(* The result holds the world and whether an exception left the function.  *)
(***************************************************************************)
scope_violation_retried(w, t, o, time, a) ==
  retry_or_block_task(w, t, "infra",
                      Msg("scope gate failed (disallowed files)", None, "",
                          {p \in o.changed_files : p \notin manifest.allowed_files[t]}),
                      time, a)

\* The scope gate found changed files outside the allowed set.
scope_violation(w, t, o, time, a) ==
  mark_task_blocked(w, t,
                    Msg("scope gate failed (disallowed files)", None, "",
                        {p \in o.changed_files : p \notin manifest.allowed_files[t]}))

task_completed(w, t) ==
  Emit([w EXCEPT !.rt[t].status = "completed",
                 !.rt[t].last_failure_kind = "none",
                 !.rt[t].last_error = NoMsg,
                 !.rt[t].compile_failures_level = 0,
                 !.rt[t].runtime_failures_level = 0,
                 !.rt[t].next_eligible_at = None],
       Ev("task_completed", t))

validate_and_complete_unchecked(w, t, o, time, a) ==
  IF o.fault = "validation" THEN [w |-> w, raised |-> TRUE, validated |-> TRUE]
  ELSE [w |-> task_completed(w, t), raised |-> FALSE, validated |-> TRUE]

\* The scope gate passed: run the validation commands, then retry or complete.
validate_and_complete(w, t, o, time, a) ==
  IF o.fault = "validation" THEN [w |-> w, raised |-> TRUE, validated |-> TRUE]
  ELSE IF ~o.ok
  THEN [w |-> retry_or_block_task(w, t, o.vkind,
                                  Msg("validation failed", None, "", {}), time, a),
        raised |-> FALSE, validated |-> TRUE]
  ELSE [w |-> task_completed(w, t), raised |-> FALSE, validated |-> TRUE]

\* The result is the resulting world, whether an exception escaped, and whether
\* the validation commands were run.
handle_finished_worker(w, t, o, time, a) ==
  IF o.fault = "query"
  THEN [w |-> w, raised |-> TRUE, validated |-> FALSE]
  ELSE IF o.returncode # 0
  THEN [w |-> retry_or_block_task(w, t, o.kind,
                                  Msg("worker exited with code", o.returncode, "", {}),
                                  time, a),
        raised |-> FALSE, validated |-> FALSE]
  ELSE IF w.rt[t].worktree_path = None
  THEN [w |-> mark_task_blocked(w, t, Msg("missing worktree path after worker exit",
                                          None, "", {})),
        raised |-> FALSE, validated |-> FALSE]
  ELSE LET w1 == [w EXCEPT !.rt[t].last_changed_files = o.changed_files]
       IN IF ~within_allowed_files(o.changed_files, manifest.allowed_files[t])
          THEN [w |-> scope_violation(w1, t, o, time, a), raised |-> FALSE,
                validated |-> FALSE]
          ELSE validate_and_complete(w1, t, o, time, a)

(***************************************************************************)
(* What the loop can observe of a worker it examines (proc.poll(), the log *)
(* tail, the working copy, the validation run).  returncode None is a      *)
(* worker that has not exited.                                             *)
(***************************************************************************)
Obs(rc, kind, changed, ok, vkind, fault) ==
  [returncode |-> rc, kind |-> kind, changed_files |-> changed, ok |-> ok,
   vkind |-> vkind, fault |-> fault]

ChangedFileSets == { {"a"}, {"a", "evil"} }

Observations ==
  {Obs(None, "", {}, FALSE, "", "none")}
    \cup {Obs(1, k, {}, FALSE, "", "none") : k \in env.kinds}
    \cup {Obs(0, "", c, TRUE, "", "none") : c \in ChangedFileSets}
    \cup {Obs(0, "", c, FALSE, k, "none") : c \in ChangedFileSets, k \in env.kinds}
    \cup (IF env.faults
          THEN {Obs(1, "", {}, FALSE, "", "query")}
                 \cup {Obs(0, "", c, FALSE, "", "validation") : c \in ChangedFileSets}
          ELSE {})

LaunchOutcomes == IF env.faults THEN {"ok", "raise"} ELSE {"ok"}

\* terminate_process on a timed-out worker returns, or an exception leaves it
\* (the wait after SIGKILL is not guarded).
TerminateOutcomes == IF env.faults THEN {"ok", "raise"} ELSE {"ok"}

\* What a step did: the operation, its task, the exit code it consumed, whether
\* validation ran and passed, whether an exception was caught, the value returned,
\* the changed files it read from the working copy, the failure kind it routed
\* through retry_or_block_task ("" if none).
Call(op, t, rc, validated, ok, raised) ==
  [op |-> op, task |-> t, returncode |-> rc, validated |-> validated, ok |-> ok,
   raised |-> raised, ret |-> None, changed |-> {}, kind |-> ""]
NoCall == Call("none", 0, None, FALSE, FALSE, FALSE)

\* Task ids in ascending order.
RECURSIVE SortedIds(_)
SortedIds(S) ==
  IF S = {} THEN <<>>
  ELSE LET m == CHOOSE x \in S : \A y \in S : x <= y
       IN <<m>> \o SortedIds(S \ {m})

(***************************************************************************)
(* State file (scheduler_state.py).  The ladder's profiles are named by    *)
(* numbers; the payload holds, per task in ascending id order, the fields  *)
(* write_state writes.  NoStateFile is a path at which no file exists.     *)
(***************************************************************************)
Ladder(a) == [i \in 1..a.profiles |-> 100 + i]

NoStateFile == [exists |-> FALSE]

Count(r, status) == Cardinality({t \in TaskIds : r[t].status = status})

\* The entry write_state appends for one task.
task_entry(r, t, procs, a) ==
  [id |-> t,
   status |-> r[t].status,
   attempts |-> r[t].attempts,
   profile_index |-> r[t].profile_index,
   profile |-> Ladder(a)[r[t].profile_index + 1],
   compile_failures_total |-> r[t].compile_failures_total,
   runtime_failures_total |-> r[t].runtime_failures_total,
   quota_failures_total |-> r[t].quota_failures_total,
   other_failures_total |-> r[t].other_failures_total,
   last_failure_kind |-> r[t].last_failure_kind,
   last_error |-> r[t].last_error,
   block_reason |-> r[t].block_reason,
   worktree_path |-> r[t].worktree_path,
   log_file |-> r[t].log_file,
   next_eligible_at |-> r[t].next_eligible_at,
   last_changed_files |-> r[t].last_changed_files,
   pid |-> IF \E i \in 1..Len(procs) : procs[i] = t THEN t ELSE None]

write_state(r, q, procs, a) ==
  LET ids == SortedIds(TaskIds)
  IN [exists |-> TRUE,
      orchestrator |-> [quota_cooldown_until |-> q.cooldown_until,
                        quota_last_detected_at |-> q.last_detected_at,
                        quota_failures_total |-> q.total_failures],
      summary |-> [pending |-> Count(r, "pending"),
                   running |-> Count(r, "running"),
                   completed |-> Count(r, "completed"),
                   blocked |-> Count(r, "blocked")],
      tasks |-> [i \in 1..Len(ids) |-> task_entry(r, ids[i], procs, a)]]

profile_lookup_none(a, key) == None

\* profile_lookup.get(key): the index of the last ladder profile equal to key.
profile_lookup(a, key) ==
  LET hits == {i \in 1..a.profiles : Ladder(a)[i] = key}
  IN IF hits = {} THEN None
     ELSE (CHOOSE i \in hits : \A j \in hits : j <= i) - 1

\* The note a demoted task's last_error ends with: alone, or after the
\* error text the entry carried.
StaleNote == "resumed from stale 'running' state; previous worker is not attached"
with_stale_note(last_error) ==
  IF last_error = NoMsg THEN Msg(StaleNote, None, "", {})
  ELSE [tag |-> StaleNote, n |-> None, kind |-> "", files |-> {},
        after |-> last_error]

demoted_failure_kind_infra(last_failure_kind) == "infra"

\* runtime.last_failure_kind or "infra"
demoted_failure_kind(last_failure_kind) ==
  IF last_failure_kind = "none" THEN "infra" ELSE last_failure_kind

\* The TaskRuntime restore_runtime_state leaves for one entry, from the
\* runtime r0 the task had (a freshly loaded one).
restore_entry(entry, r0, a) ==
  LET looked == IF "profile" \in DOMAIN entry
                THEN profile_lookup(a, entry.profile) ELSE None
      profile_index == IF looked # None THEN looked
                       ELSE IF "profile_index" \in DOMAIN entry
                       THEN Max(0, Min(entry.profile_index, a.profiles - 1))
                       ELSE 0
      r1 == [r0 EXCEPT
               !.status = IF entry.status \in {"pending", "running",
                                                "completed", "blocked"}
                          THEN entry.status ELSE "pending",
               !.profile_index = profile_index,
               !.attempts = entry.attempts,
               !.compile_failures_total = entry.compile_failures_total,
               !.runtime_failures_total = entry.runtime_failures_total,
               !.quota_failures_total = entry.quota_failures_total,
               !.other_failures_total = entry.other_failures_total,
               !.last_failure_kind = entry.last_failure_kind,
               !.last_error = entry.last_error,
               !.block_reason = entry.block_reason,
               !.worktree_path = IF entry.worktree_path # None
                                 THEN entry.worktree_path ELSE @,
               !.log_file = IF entry.log_file # None THEN entry.log_file ELSE @,
               !.next_eligible_at = IF entry.next_eligible_at # None
                                    THEN entry.next_eligible_at ELSE @,
               !.last_changed_files = entry.last_changed_files]
  IN IF r1.status = "running"
     THEN [r1 EXCEPT !.status = "pending",
                     !.last_error = with_stale_note(r1.last_error),
                     !.last_failure_kind = demoted_failure_kind(r1.last_failure_kind)]
     ELSE r1

RECURSIVE RestoreFrom_by_position(_, _, _, _)
RestoreFrom_by_position(entries, i, r, a) ==
  IF i > Len(entries) THEN r
  ELSE LET e == entries[i]
           ids == SortedIds(TaskIds)
       IN RestoreFrom_by_position(entries, i + 1,
                      IF i <= Len(ids)
                      THEN [r EXCEPT ![ids[i]] = restore_entry(e, r[ids[i]], a)]
                      ELSE r,
                      a)

RECURSIVE RestoreFrom(_, _, _, _)
RestoreFrom(entries, i, r, a) ==
  IF i > Len(entries) THEN r
  ELSE LET e == entries[i]
       IN RestoreFrom(entries, i + 1,
                      IF e.id \in TaskIds
                      THEN [r EXCEPT ![e.id] = restore_entry(e, r[e.id], a)]
                      ELSE r,
                      a)

\* The quota runtime after the "orchestrator" object of the file is read.
restore_quota(file, q) ==
  [cooldown_until |-> file.orchestrator.quota_cooldown_until,
   last_detected_at |->
     IF file.orchestrator.quota_last_detected_at # None
     THEN file.orchestrator.quota_last_detected_at
     ELSE q.last_detected_at,
   total_failures |-> file.orchestrator.quota_failures_total]

\* The task runtimes and the quota runtime after restore_runtime_state.
restore_runtime_state(file, r, q, a) ==
  IF ~file.exists THEN [rt |-> r, quota |-> q]
  ELSE [rt |-> RestoreFrom(file.tasks, 1, r, a),
        quota |-> restore_quota(file, q)]

(***************************************************************************)
(* Dispatch loop (scheduler_engine.main).                                  *)
(***************************************************************************)
Init ==
  /\ \E run \in Runs :
       /\ args = run.args
       /\ manifest = run.manifest
       /\ env = run.env
       /\ quota = run.quota
  /\ rt = [t \in TaskIds |-> DefaultRuntime]
  /\ now = 0
  /\ quota_wait_announced_until = IF quota.cooldown_until > now
                                  THEN quota.cooldown_until ELSE 0
  /\ running = <<>>
  /\ pc = "reap"
  /\ reap_queue = <<>>
  /\ finished_ids = <<>>
  /\ now_ts = 0
  /\ capacity = 0
  /\ ready_slice = <<>>
  /\ launch_idx = 1
  /\ call = NoCall
  /\ events = <<Ev("start", 0)>>
  /\ exit_code = None
  /\ payload = <<>>
  /\ text = <<>>
  /\ state_file = IF quota = DefaultQuota THEN NoStateFile
                  ELSE [exists |-> TRUE,
                        orchestrator |->
                          [quota_cooldown_until |-> quota.cooldown_until,
                           quota_last_detected_at |-> quota.last_detected_at,
                           quota_failures_total |-> quota.total_failures],
                        summary |-> [pending |-> 0, running |-> 0,
                                     completed |-> 0, blocked |-> 0],
                        tasks |-> <<>>]

Tick ==
  /\ pc \in {"reap", "launch"}
  /\ now < MaxTime
  /\ now' = now + 1
  /\ call' = NoCall
  /\ events' = <<>>
  /\ UNCHANGED <<state_file, text, payload, args, manifest, env, rt, quota, quota_wait_announced_until, running, pc,
                 reap_queue, finished_ids, now_ts, capacity, ready_slice, launch_idx,
                 exit_code>>

\* The worker-timeout test of the reap loop.
timed_out(r, t, time, a) ==
  /\ a.worker_timeout_seconds > 0
  /\ r[t].started_at # None
  /\ (time - r[t].started_at) > a.worker_timeout_seconds

\* One pass of the body of "for task_id, proc in list(running.items())".
ReapStep ==
  /\ pc = "reap"
  /\ reap_queue # <<>>
  /\ LET t == Head(reap_queue)
         w == World(rt, quota, <<>>)
     IN IF timed_out(rt, t, now, args)
        THEN \E outcome \in TerminateOutcomes :
               IF outcome = "raise"
               THEN \* no handler encloses the call: the exception leaves main
                    /\ UNCHANGED <<rt, quota, finished_ids>>
                    /\ events' = <<>>
                    /\ pc' = "crashed"
                    /\ exit_code' = 1
                    /\ call' = Call("timeout", t, None, FALSE, FALSE, TRUE)
               ELSE LET w1 == retry_or_block_task(
                                  w, t, "infra",
                                  Msg("worker timed out", None, "", {}), now, args)
                    IN /\ rt' = w1.rt
                       /\ quota' = w1.quota
                       /\ events' = w1.ev
                       /\ finished_ids' = Append(finished_ids, t)
                       /\ call' = [Call("timeout", t, None, FALSE, FALSE, FALSE)
                                     EXCEPT !.kind = w1.routed]
                       /\ UNCHANGED <<pc, exit_code>>
        ELSE \E o \in Observations :
               IF o.returncode = None
               THEN /\ o.fault = "none"
                    /\ UNCHANGED <<rt, quota, finished_ids, pc, exit_code>>
                    /\ events' = <<>>
                    /\ call' = Call("poll", t, None, FALSE, FALSE, FALSE)
               ELSE LET h == handle_finished_worker(w, t, o, now, args)
                        w1 == IF h.raised
                              THEN retry_or_block_task(
                                       h.w, t, "infra",
                                       Msg("orchestrator post-processing failure",
                                           None, "", {}),
                                       now, args)
                              ELSE h.w
                    IN /\ rt' = w1.rt
                       /\ quota' = w1.quota
                       /\ events' = w1.ev
                       /\ finished_ids' = Append(finished_ids, t)
                       /\ call' = [Call("reap", t,
                                        IF o.fault = "query" THEN None
                                        ELSE o.returncode,
                                        h.validated,
                                        h.validated /\ o.fault = "none" /\ o.ok,
                                        h.raised)
                                   EXCEPT !.changed = o.changed_files,
                                          !.kind = w1.routed]
                       /\ UNCHANGED <<pc, exit_code>>
  /\ reap_queue' = Tail(reap_queue)
  /\ UNCHANGED <<state_file, text, payload, args, manifest, env, quota_wait_announced_until, running,
                 now, now_ts, capacity, ready_slice, launch_idx>>

Without_nothing(seq, ids) == seq

RECURSIVE Without(_, _)
Without(seq, ids) ==
  IF seq = <<>> THEN <<>>
  ELSE IF \E i \in 1..Len(ids) : ids[i] = Head(seq)
       THEN Without(Tail(seq), ids)
       ELSE <<Head(seq)>> \o Without(Tail(seq), ids)

cooldown_expired_early(q, time) == q.cooldown_until > 0

\* The expiry test that clears the cooldown.
cooldown_expired(q, time) == q.cooldown_until > 0 /\ time >= q.cooldown_until

launch_capacity_ignoring_cooldown(a, nrunning, cooldown_until, time) ==
  Max(a.max_parallel - nrunning, 0)

launch_capacity_ignoring_running(a, nrunning, cooldown_until, time) ==
  IF cooldown_until > time THEN 0 ELSE a.max_parallel

\* capacity as computed from the running dict and the cooldown.
launch_capacity(a, nrunning, cooldown_until, time) ==
  IF cooldown_until > time THEN 0 ELSE Max(a.max_parallel - nrunning, 0)

\* The ready tasks in dict order, cut to capacity.
ready_to_launch_unsorted(r, time, cap) ==
  IF cap > 0
  THEN LET is_ready(t) == task_ready(r, t, time)
           ready == SelectSeq(manifest.order, is_ready)
       IN SubSeq(ready, 1, Min(cap, Len(ready)))
  ELSE <<>>

\* ready[:capacity]: the ready tasks in ascending task_id order, cut to capacity.
ready_to_launch(r, time, cap) ==
  IF cap > 0
  THEN LET ready == SortedIds({t \in TaskIds : task_ready(r, t, time)})
       IN SubSeq(ready, 1, Min(cap, Len(ready)))
  ELSE <<>>

\* From the end of the reap loop to the choice of the tasks to launch.
Plan ==
  /\ pc = "reap"
  /\ reap_queue = <<>>
  /\ LET w1 == propagate_dependency_blocks(World(rt, quota, <<>>))
         expired == cooldown_expired(quota, now)
         until == IF expired THEN 0 ELSE quota.cooldown_until
         announced == IF expired THEN 0 ELSE quota_wait_announced_until
         cap == launch_capacity(args, Len(running'), until, now)
         announce == until > now /\ announced # until
     IN /\ running' = Without(running, finished_ids)
        /\ rt' = w1.rt
        /\ quota' = [quota EXCEPT !.cooldown_until = until]
        /\ quota_wait_announced_until' = IF announce THEN until ELSE announced
        /\ now_ts' = now
        /\ capacity' = cap
        /\ ready_slice' = ready_to_launch(w1.rt, now, cap)
        /\ events' = w1.ev
                      \o (IF expired THEN <<Ev("quota_resume", 0)>> ELSE <<>>)
                      \o (IF announce THEN <<Ev("quota_wait", 0)>> ELSE <<>>)
  /\ launch_idx' = 1
  /\ finished_ids' = <<>>
  /\ pc' = "launch"
  /\ call' = Call("plan", 0, None, FALSE, FALSE, FALSE)
  /\ UNCHANGED <<state_file, text, payload, args, manifest, env, now, reap_queue, exit_code>>

\* One pass of the body of "for task in ready[:capacity]".
LaunchStep ==
  /\ pc = "launch"
  /\ launch_idx <= Len(ready_slice)
  /\ LET t == ready_slice[launch_idx]
     IN \E outcome \in LaunchOutcomes :
          LET l == launch_task(World(rt, quota, <<>>), t, now, args, outcome)
              w1 == IF l.raised
                    THEN retry_or_block_task(l.w, t, "infra",
                                             Msg("worker launch failure", None, "", {}),
                                             now, args)
                    ELSE l.w
          IN /\ rt' = w1.rt
             /\ quota' = w1.quota
             /\ events' = w1.ev
             /\ running' = IF l.proc THEN Append(running, t) ELSE running
             /\ call' = [Call("launch", t, None, FALSE, FALSE, l.raised)
                           EXCEPT !.kind = w1.routed]
  /\ launch_idx' = launch_idx + 1
  /\ UNCHANGED <<state_file, text, payload, args, manifest, env, quota_wait_announced_until, now, pc, reap_queue,
                 finished_ids, now_ts, capacity, ready_slice, exit_code>>

\* write_state, the termination check and the sleep that end an iteration.
\* The iteration's locals are dead from here on and are reset.
Persist ==
  /\ pc = "launch"
  /\ launch_idx > Len(ready_slice)
  /\ LET has_ready == \E t \in TaskIds : task_ready(rt, t, now)
         w1 == IF ~(all_done(rt) /\ running = <<>>) /\ running = <<>> /\ ~has_ready
               THEN propagate_dependency_blocks(World(rt, quota, <<>>))
               ELSE World(rt, quota, <<>>)
         stop == running = <<>> /\ all_done(w1.rt)
         blocked == Cardinality({t \in TaskIds : w1.rt[t].status = "blocked"})
     IN /\ rt' = w1.rt
        /\ pc' = IF stop THEN "done" ELSE "reap"
        /\ exit_code' = IF stop THEN (IF blocked = 0 THEN 0 ELSE 1) ELSE exit_code
        /\ events' = w1.ev \o (IF stop THEN <<Ev("finish", 0)>> ELSE <<>>)
  /\ reap_queue' = running
  /\ now_ts' = 0
  /\ capacity' = 0
  /\ ready_slice' = <<>>
  /\ launch_idx' = 1
  /\ call' = Call("persist", 0, None, FALSE, FALSE, FALSE)
  /\ state_file' = write_state(rt, quota, running, args)
  /\ UNCHANGED <<text, payload, args, manifest, env, quota, quota_wait_announced_until, running, now,
                 finished_ids>>

RECURSIVE BlockRunning(_, _)
BlockRunning(w, procs) ==
  IF procs = <<>> THEN w
  ELSE BlockRunning(mark_task_blocked(w, Head(procs),
                                      Msg("orchestrator interrupted by operator",
                                          None, "", {})),
                    Tail(procs))

\* The KeyboardInterrupt handler.
Interrupt ==
  /\ pc \in {"reap", "launch"}
  /\ LET w1 == BlockRunning(World(rt, quota, <<Ev("interrupt", 0)>>), running)
     IN /\ rt' = w1.rt
        /\ events' = w1.ev
  /\ running' = <<>>
  /\ pc' = "interrupted"
  /\ exit_code' = 130
  /\ call' = Call("interrupt", 0, None, FALSE, FALSE, FALSE)
  /\ state_file' = write_state(rt', quota, running', args)
  /\ UNCHANGED <<text, payload, args, manifest, env, quota, quota_wait_announced_until, now, reap_queue,
                 finished_ids, now_ts, capacity, ready_slice, launch_idx>>

\* KeyboardInterrupt raised inside launch_task, after it has marked the task
\* running and before the loop has stored the process in running.
InterruptLaunch ==
  /\ pc = "launch"
  /\ launch_idx <= Len(ready_slice)
  /\ ~args.dry_run
  /\ LET t == ready_slice[launch_idx]
         l == launch_task(World(rt, quota, <<>>), t, now, args, "raise")
         w1 == BlockRunning([l.w EXCEPT !.ev = <<Ev("interrupt", 0)>>], running)
     IN /\ rt' = w1.rt
        /\ events' = w1.ev
        /\ call' = Call("interrupt", t, None, FALSE, FALSE, FALSE)
  /\ running' = <<>>
  /\ pc' = "interrupted"
  /\ exit_code' = 130
  /\ state_file' = write_state(rt', quota, running', args)
  /\ UNCHANGED <<text, payload, args, manifest, env, quota, quota_wait_announced_until, now, reap_queue,
                 finished_ids, now_ts, capacity, ready_slice, launch_idx>>

Next ==
  Tick \/ ReapStep \/ Plan \/ LaunchStep \/ Persist \/ Interrupt \/ InterruptLaunch

Spec == Init /\ [][Next]_vars

(***************************************************************************)
(* activate_quota_cooldown called on its own, as the unit tests call it:   *)
(* on any quota runtime, at any time.                                      *)
(***************************************************************************)
\* Calls made on one quota runtime.
MaxCalls == 2

InitQuota ==
  /\ args \in {RichArgs, [RichArgs EXCEPT !.quota_cooldown_seconds = 2]}
  /\ manifest = OneTask
  /\ env = PlainWorker
  /\ rt = [t \in TaskIds |-> DefaultRuntime]
  /\ quota \in [cooldown_until : 0..(MaxTime + 3),
                last_detected_at : {None} \cup 0..MaxTime,
                total_failures : {0}]
  /\ now \in 0..MaxTime
  /\ quota.last_detected_at <= now
  /\ quota_wait_announced_until = 0
  /\ running = <<>>
  /\ pc = "unit"
  /\ reap_queue = <<>>
  /\ finished_ids = <<>>
  /\ now_ts = 0
  /\ capacity = 0
  /\ ready_slice = <<>>
  /\ launch_idx = 1
  /\ call = NoCall
  /\ events = <<>>
  /\ exit_code = None
  /\ payload = <<>>
  /\ text = <<>>
  /\ state_file = NoStateFile

ClockAdvance ==
  /\ pc = "unit"
  /\ now < MaxTime
  /\ now' = now + 1
  /\ call' = NoCall
  /\ events' = <<>>
  /\ UNCHANGED <<state_file, text, payload, args, manifest, env, rt, quota, quota_wait_announced_until, running, pc,
                 reap_queue, finished_ids, now_ts, capacity, ready_slice, launch_idx,
                 exit_code>>

ActivateQuotaCooldown ==
  /\ pc = "unit"
  /\ quota.total_failures < MaxCalls
  /\ LET w1 == activate_quota_cooldown(World(rt, quota, <<>>), 1, now,
                                       args.quota_cooldown_seconds)
     IN /\ quota' = w1.quota
        /\ events' = w1.ev
        /\ call' = [Call("activate_quota_cooldown", 1, None, FALSE, FALSE, FALSE)
                      EXCEPT !.ret = w1.quota.cooldown_until]
  /\ UNCHANGED <<state_file, text, payload, args, manifest, env, rt, quota_wait_announced_until, running, now, pc,
                 reap_queue, finished_ids, now_ts, capacity, ready_slice, launch_idx,
                 exit_code>>

NextQuota == ClockAdvance \/ ActivateQuotaCooldown

SpecQuota == InitQuota /\ [][NextQuota]_vars

(***************************************************************************)
(* The dispatch loop together with handle_finished_worker called on its    *)
(* own, as the unit tests call it: on a running task that may have no      *)
(* worktree path, a state the loop itself never hands to the handler.      *)
(* An exception of a direct call escapes to the caller and leaves no       *)
(* transition, so direct calls draw only observations without faults.      *)
(***************************************************************************)
InitHandler ==
  /\ args \in {RichArgs, PoorArgs}
  /\ manifest \in {OneTask, [OneTask EXCEPT !.allowed_files = << {} >>]}
  /\ env = AnyWorker
  /\ \E attempts \in 1..2, profile \in 0..(args.profiles - 1),
        worktree \in {None, 1}, level \in 0..1 :
       rt = [t \in TaskIds |->
               [DefaultRuntime EXCEPT !.status = "running",
                                      !.attempts = attempts,
                                      !.profile_index = profile,
                                      !.compile_failures_total = level,
                                      !.compile_failures_level = level,
                                      !.started_at = 0,
                                      !.worktree_path = worktree,
                                      !.log_file = 1]]
  /\ quota \in {DefaultQuota, RestoredQuota}
  /\ now = 0
  /\ quota_wait_announced_until = 0
  /\ running = <<>>
  /\ pc = "handler"
  /\ reap_queue = <<>>
  /\ finished_ids = <<>>
  /\ now_ts = 0
  /\ capacity = 0
  /\ ready_slice = <<>>
  /\ launch_idx = 1
  /\ call = NoCall
  /\ events = <<>>
  /\ exit_code = None
  /\ payload = <<>>
  /\ text = <<>>
  /\ state_file = NoStateFile

HandleFinishedWorker ==
  /\ pc = "handler"
  /\ \E t \in TaskIds, o \in Observations :
       /\ rt[t].status = "running"
       /\ o.returncode # None
       /\ o.fault = "none"
       /\ LET h == handle_finished_worker(World(rt, quota, <<>>), t, o, now, args)
          IN /\ rt' = h.w.rt
             /\ quota' = h.w.quota
             /\ events' = h.w.ev
             /\ call' = [Call("reap", t, o.returncode, h.validated,
                              h.validated /\ o.ok, h.raised)
                           EXCEPT !.changed = o.changed_files,
                                  !.kind = h.w.routed]
  /\ UNCHANGED <<state_file, text, payload, args, manifest, env, quota_wait_announced_until, running, now, pc,
                 reap_queue, finished_ids, now_ts, capacity, ready_slice, launch_idx,
                 exit_code>>

NextHandler == Next \/ HandleFinishedWorker

SpecHandler == (Init \/ InitHandler) /\ [][NextHandler]_vars

(***************************************************************************)
(* The dispatch loop under the conditions of its termination: the          *)
(* operator does not interrupt, terminate_process returns, the loop keeps  *)
(* running (weak fairness of its steps), every worker that is polled again *)
(* and again is at some time found exited or timed out (strong fairness of *)
(* the reaping of a finished worker), and the clock passes every cooldown  *)
(* and eligibility time that lies ahead.                                   *)
(***************************************************************************)
\* A time the loop is waiting for lies ahead.
deadline_ahead ==
  \/ quota.cooldown_until > now
  \/ \E t \in TaskIds : rt[t].next_eligible_at # None /\ rt[t].next_eligible_at > now

\* time.time() advances: as Tick, and beyond MaxTime while a deadline is ahead.
TickLive ==
  /\ pc \in {"reap", "launch"}
  /\ now < MaxTime \/ deadline_ahead
  /\ now' = now + 1
  /\ call' = NoCall
  /\ events' = <<>>
  /\ UNCHANGED <<state_file, text, payload, args, manifest, env, rt, quota,
                 quota_wait_announced_until, running, pc, reap_queue, finished_ids,
                 now_ts, capacity, ready_slice, launch_idx, exit_code>>

\* The reap loop's step when terminate_process returns.
ReapReturning == ReapStep /\ pc' = pc

\* The reap loop finds the worker exited or timed out.
ReapFinished == ReapReturning /\ call'.op \in {"reap", "timeout"}

LoopStep == ReapReturning \/ Plan \/ LaunchStep \/ Persist

NextLive == TickLive \/ LoopStep

\* The runs whose termination is explored.
RunsLive ==
  { Run(RichArgs, OneTask, DefaultQuota, AnyWorker),
    Run(PoorArgs, Chain, DefaultQuota, AnyWorker),
    Run([RichArgs EXCEPT !.dry_run = TRUE], Chain, DefaultQuota, PlainWorker) }

InitLive == Init /\ Run(args, manifest, quota, env) \in RunsLive

SpecLive ==
  /\ InitLive
  /\ [][NextLive]_vars
  /\ WF_vars(TickLive)
  /\ WF_vars(LoopStep)
  /\ SF_vars(ReapFinished)

(***************************************************************************)
(* propagate_dependency_blocks called on its own, on any task set that     *)
(* load_manifest can return: three tasks whose depends_on lists name       *)
(* loaded tasks (themselves and cycles included), each in any status.      *)
(***************************************************************************)
\* Length of a depends_on list.
MaxDeps == 2

\* The depends_on lists: sequences of distinct task ids.
DepLists ==
  {d \in UNION {[1..n -> 1..3] : n \in 0..MaxDeps} :
     \A i, j \in 1..Len(d) : i # j => d[i] # d[j]}

Statuses == {"pending", "running", "completed", "blocked"}

InitPropagate ==
  /\ \E d1, d2, d3 \in DepLists :
       manifest = [order |-> <<1, 2, 3>>,
                   depends_on |-> <<d1, d2, d3>>,
                   allowed_files |-> << {"a"}, {"a"}, {"a"} >>]
  /\ \E st \in [1..3 -> Statuses] :
       rt = [t \in 1..3 |-> [DefaultRuntime EXCEPT !.status = st[t]]]
  /\ args = RichArgs
  /\ env = PlainWorker
  /\ quota = DefaultQuota
  /\ now = 0
  /\ quota_wait_announced_until = 0
  /\ running = <<>>
  /\ pc = "propagate"
  /\ reap_queue = <<>>
  /\ finished_ids = <<>>
  /\ now_ts = 0
  /\ capacity = 0
  /\ ready_slice = <<>>
  /\ launch_idx = 1
  /\ call = NoCall
  /\ events = <<>>
  /\ exit_code = None
  /\ payload = <<>>
  /\ text = <<>>
  /\ state_file = NoStateFile

PropagateDependencyBlocks ==
  /\ pc = "propagate"
  /\ LET w1 == propagate_dependency_blocks(World(rt, quota, <<>>))
     IN /\ rt' = w1.rt
        /\ events' = w1.ev
  /\ call' = Call("propagate_dependency_blocks", 0, None, FALSE, FALSE, FALSE)
  /\ pc' = "propagated"
  /\ UNCHANGED <<state_file, text, payload, args, manifest, env, quota,
                 quota_wait_announced_until, running, now, reap_queue, finished_ids,
                 now_ts, capacity, ready_slice, launch_idx, exit_code>>

SpecPropagate == InitPropagate /\ [][PropagateDependencyBlocks]_vars

(***************************************************************************)
(* classify_failure (scheduler_detection.py) called on its own.  A text is *)
(* a sequence of fragments; a fragment is a piece of text in lower case    *)
(* (up FALSE) or with upper-case letters in it (up TRUE).  A marker is the *)
(* sequence of lower-case pieces it is made of, and "marker in lower" is   *)
(* the occurrence of that sequence in the lower-cased text.  The marker    *)
(* lists hold some of the markers of each list of the source.              *)
(***************************************************************************)
\* Fragments in a text.
MaxTextLen == 3

Pieces ==
  {"insufficient_quota", "failed to compile", "panic", "assertion", " failed",
   "test", "timeout", "ok"}

Fragments == [s : Pieces, up : BOOLEAN]

\* str.lower()
lower_of(txt) == [i \in 1..Len(txt) |-> txt[i].s]

\* needle in haystack
contains(haystack, needle) ==
  \E i \in 1..(Len(haystack) - Len(needle) + 1) :
    \A k \in 1..Len(needle) : haystack[i + k - 1] = needle[k]

\* The (needle, kind) pairs of detect_quota_or_rate_limit, in list order.
indicators == << [needle |-> <<"insufficient_quota">>, kind |-> "insufficient_quota"] >>
compile_markers == { <<"failed to compile">> }
runtime_markers == { <<"panic">>, <<"assertion", " failed">> }
test_markers == { <<"test", " failed">>, <<"assertion">> }
infra_markers == { <<"timeout">> }

\* The reason of the first indicator found in the lower-cased text, or "".
detect_quota_or_rate_limit(txt) ==
  LET lower == lower_of(txt)
      hits == {i \in 1..Len(indicators) : contains(lower, indicators[i].needle)}
  IN IF hits = {} THEN ""
     ELSE indicators[CHOOSE i \in hits : \A j \in hits : i <= j].kind

classify_failure_compile_first(txt) ==
  LET lower == lower_of(txt)
  IN IF \E marker \in compile_markers : contains(lower, marker) THEN "compile"
     ELSE IF detect_quota_or_rate_limit(txt) # "" THEN "quota"
     ELSE IF \E marker \in runtime_markers : contains(lower, marker) THEN "runtime"
     ELSE IF \E marker \in test_markers : contains(lower, marker) THEN "test"
     ELSE IF \E marker \in infra_markers : contains(lower, marker) THEN "infra"
     ELSE "unknown"

classify_failure(txt) ==
  IF detect_quota_or_rate_limit(txt) # "" THEN "quota"
  ELSE LET lower == lower_of(txt)
       IN IF \E marker \in compile_markers : contains(lower, marker) THEN "compile"
          ELSE IF \E marker \in runtime_markers : contains(lower, marker) THEN "runtime"
          ELSE IF \E marker \in test_markers : contains(lower, marker) THEN "test"
          ELSE IF \E marker \in infra_markers : contains(lower, marker) THEN "infra"
          ELSE "unknown"

Texts == UNION {[1..n -> Fragments] : n \in 0..MaxTextLen}

InitClassify ==
  /\ text \in Texts
  /\ args = RichArgs
  /\ manifest = OneTask
  /\ env = PlainWorker
  /\ rt = [t \in TaskIds |-> DefaultRuntime]
  /\ quota = DefaultQuota
  /\ now = 0
  /\ quota_wait_announced_until = 0
  /\ running = <<>>
  /\ pc = "classify"
  /\ reap_queue = <<>>
  /\ finished_ids = <<>>
  /\ now_ts = 0
  /\ capacity = 0
  /\ ready_slice = <<>>
  /\ launch_idx = 1
  /\ call = NoCall
  /\ events = <<>>
  /\ exit_code = None
  /\ payload = <<>>
  /\ state_file = NoStateFile

ClassifyFailure ==
  /\ pc = "classify"
  /\ call' = [Call("classify_failure", 0, None, FALSE, FALSE, FALSE)
                EXCEPT !.kind = classify_failure(text)]
  /\ pc' = "classified"
  /\ UNCHANGED <<state_file, text, payload, args, manifest, env, rt, quota,
                 quota_wait_announced_until, running, now, reap_queue, finished_ids,
                 now_ts, capacity, ready_slice, launch_idx, events, exit_code>>

SpecClassify == InitClassify /\ [][ClassifyFailure]_vars

(***************************************************************************)
(* load_manifest (manifest.py) called on its own at startup, followed by   *)
(* the ensure_worktree calls of the launches.  Id strings and file stems   *)
(* are numbered so that case shows: a number below 100 is a string in      *)
(* lower case, 100 more is the same string with its letters in upper case  *)
(* (1 is "w101", 101 is "W101").  A packet is the file an entry names: the *)
(* stem of its name, whether the file exists and the allowed files parsed  *)
(* from it.                                                                *)
(***************************************************************************)
\* Entries in the "tasks" list of a manifest file.
MaxEntries == 2

IdStrings == {1, 2, 101, 102}

\* str.lower() of an id or a file stem.
lower(str) == str % 100

Packets ==
  { [stem |-> 1, exists |-> TRUE, allowed |-> {"a"}],
    [stem |-> 101, exists |-> TRUE, allowed |-> {}],
    [stem |-> 2, exists |-> FALSE, allowed |-> {}] }

\* The depends_on lists of an entry: sequences of distinct id strings.
EntryDeps ==
  {d \in UNION {[1..n -> IdStrings] : n \in 0..MaxDeps} :
     \A i, j \in 1..Len(d) : i # j => d[i] # d[j]}

Entries == [id : IdStrings, packet : Packets, depends_on : EntryDeps]

Payloads == UNION {[1..n -> Entries] : n \in 0..MaxEntries}

\* The ids of the entries of a "tasks" list.
EntryIds(p) == {p[i].id : i \in 1..Len(p)}

\* TRUE iff load_manifest returns: no id is listed twice, every packet file
\* exists and has allowed files (or empty ones are allowed), and every
\* dependency names a listed task.
load_manifest_ok(p, allow_empty_allowed_files) ==
  /\ \A i, j \in 1..Len(p) : i # j => p[i].id # p[j].id
  /\ \A i \in 1..Len(p) :
       /\ p[i].packet.exists
       /\ (p[i].packet.allowed # {} \/ allow_empty_allowed_files)
  /\ \A i \in 1..Len(p) :
       \A k \in 1..Len(p[i].depends_on) : p[i].depends_on[k] \in EntryIds(p)

\* The task set load_manifest returns.
load_manifest(p) ==
  LET at(t) == CHOOSE i \in 1..Len(p) : p[i].id = t
  IN [order |-> [i \in 1..Len(p) |-> p[i].id],
      depends_on |-> [t \in EntryIds(p) |-> p[at(t)].depends_on],
      allowed_files |-> [t \in EntryIds(p) |-> p[at(t)].packet.allowed],
      packet |-> [t \in EntryIds(p) |-> p[at(t)].packet.stem]]

\* slugify of a file stem made of letters and digits.
slugify(value) == lower(value)

\* task_branch_name: codex/<id in lower case>-<slug of the packet stem>
task_branch_name(t) == <<lower(t), slugify(manifest.packet[t])>>

InitLoad ==
  /\ payload \in Payloads
  /\ \E b \in BOOLEAN : args = [RichArgs EXCEPT !.allow_empty_allowed_files = b]
  /\ manifest = [order |-> <<>>, depends_on |-> <<>>, allowed_files |-> <<>>,
                 packet |-> <<>>]
  /\ rt = <<>>
  /\ env = PlainWorker
  /\ quota = DefaultQuota
  /\ now = 0
  /\ quota_wait_announced_until = 0
  /\ running = <<>>
  /\ pc = "load"
  /\ reap_queue = <<>>
  /\ finished_ids = <<>>
  /\ now_ts = 0
  /\ capacity = 0
  /\ ready_slice = <<>>
  /\ launch_idx = 1
  /\ call = NoCall
  /\ events = <<>>
  /\ exit_code = None
  /\ text = <<>>
  /\ state_file = NoStateFile

LoadManifest ==
  /\ pc = "load"
  /\ IF load_manifest_ok(payload, args.allow_empty_allowed_files)
     THEN /\ manifest' = load_manifest(payload)
          /\ rt' = [t \in EntryIds(payload) |-> DefaultRuntime]
          /\ call' = Call("load_manifest", 0, None, FALSE, TRUE, FALSE)
          /\ pc' = "loaded"
     ELSE /\ call' = Call("load_manifest", 0, None, FALSE, FALSE, TRUE)
          /\ pc' = "rejected"
          /\ UNCHANGED <<manifest, rt>>
  /\ UNCHANGED <<state_file, text, payload, args, env, quota,
                 quota_wait_announced_until, running, now, reap_queue, finished_ids,
                 now_ts, capacity, ready_slice, launch_idx, events, exit_code>>

\* ensure_worktree for a task launched for the first time: the branch name
\* and the worktree path are derived from the task and recorded.
EnsureWorktree ==
  /\ pc = "loaded"
  /\ \E t \in TaskIds :
       /\ rt[t].worktree_path = None
       /\ rt' = [rt EXCEPT ![t].worktree_path = lower(t)]
       /\ call' = [Call("ensure_worktree", t, None, FALSE, TRUE, FALSE)
                     EXCEPT !.ret = task_branch_name(t)]
  /\ UNCHANGED <<state_file, text, payload, args, manifest, env, quota,
                 quota_wait_announced_until, running, now, pc, reap_queue,
                 finished_ids, now_ts, capacity, ready_slice, launch_idx, events,
                 exit_code>>

SpecLoad == InitLoad /\ [][LoadManifest \/ EnsureWorktree]_vars

(***************************************************************************)
(* restore_runtime_state called on its own at startup, on two freshly      *)
(* loaded tasks and any state file: none, one without a "tasks" list, or   *)
(* one whose entries name loaded and unknown tasks, with or without a      *)
(* "profile" object and a numeric "profile_index".                         *)
(***************************************************************************)
\* Entries in the "tasks" list of a state file.
MaxFileEntries == 2

\* The fields of an entry other than "profile" and "profile_index".
BaseEntry(t, status) ==
  [id |-> t, status |-> status, attempts |-> 1,
   compile_failures_total |-> 0, runtime_failures_total |-> 0,
   quota_failures_total |-> 0, other_failures_total |-> 0,
   last_failure_kind |-> "none", last_error |-> NoMsg, block_reason |-> NoMsg,
   worktree_path |-> None, log_file |-> None, next_eligible_at |-> None,
   last_changed_files |-> {}, pid |-> None]

\* "profile": absent, the first profile of every ladder, the third profile of
\* a ladder of three, a profile of no ladder.
ProfileFields == {<<>>} \cup {[profile |-> p] : p \in {101, 103, 199}}

\* "profile_index": absent, or a number in or out of range.
IndexFields == {<<>>} \cup {[profile_index |-> i] : i \in {0 - 1, 0, 1, 5}}

FileEntries ==
  {p @@ i @@ BaseEntry(t, status) :
     p \in ProfileFields, i \in IndexFields, t \in 1..3,
     status \in {"completed", "running"}}

FileHead ==
  [exists |-> TRUE,
   orchestrator |-> [quota_cooldown_until |-> 1, quota_last_detected_at |-> 0,
                     quota_failures_total |-> 1],
   summary |-> [pending |-> 0, running |-> 0, completed |-> 0, blocked |-> 0]]

StateFiles ==
  {NoStateFile, FileHead}
    \cup {[tasks |-> es] @@ FileHead :
            es \in UNION {[1..n -> FileEntries] : n \in 0..MaxFileEntries}}

InitResume ==
  /\ state_file \in StateFiles
  /\ \E n \in 1..3 : args = [RichArgs EXCEPT !.profiles = n]
  /\ manifest = Pair
  /\ rt = [t \in TaskIds |-> DefaultRuntime]
  /\ env = PlainWorker
  /\ quota = DefaultQuota
  /\ now = 0
  /\ quota_wait_announced_until = 0
  /\ running = <<>>
  /\ pc = "resume"
  /\ reap_queue = <<>>
  /\ finished_ids = <<>>
  /\ now_ts = 0
  /\ capacity = 0
  /\ ready_slice = <<>>
  /\ launch_idx = 1
  /\ call = NoCall
  /\ events = <<>>
  /\ exit_code = None
  /\ payload = <<>>
  /\ text = <<>>

RestoreRuntimeState ==
  /\ pc = "resume"
  /\ IF ~state_file.exists
     THEN /\ events' = <<Ev("resume_skip", 0)>>
          /\ call' = Call("restore_runtime_state", 0, None, FALSE, TRUE, FALSE)
          /\ pc' = "resumed"
          /\ UNCHANGED <<rt, quota, exit_code>>
     ELSE IF "tasks" \notin DOMAIN state_file
     THEN \* ValueError: main prints "resume error" and returns 2
          /\ quota' = restore_quota(state_file, quota)
          /\ events' = <<>>
          /\ call' = Call("restore_runtime_state", 0, None, FALSE, FALSE, TRUE)
          /\ pc' = "rejected"
          /\ exit_code' = 2
          /\ UNCHANGED rt
     ELSE LET res == restore_runtime_state(state_file, rt, quota, args)
          IN /\ rt' = res.rt
             /\ quota' = res.quota
             /\ events' = <<Ev("resume_loaded", 0)>>
             /\ call' = Call("restore_runtime_state", 0, None, FALSE, TRUE, FALSE)
             /\ pc' = "resumed"
             /\ UNCHANGED exit_code
  /\ UNCHANGED <<state_file, text, payload, args, manifest, env,
                 quota_wait_announced_until, running, now, reap_queue, finished_ids,
                 now_ts, capacity, ready_slice, launch_idx>>

SpecResume == InitResume /\ [][RestoreRuntimeState]_vars

(***************************************************************************)
(* within_allowed_files (scheduler_runtime.py) called on its own, on any   *)
(* changed files and any allowed set over a few paths, two of which differ *)
(* from "a.py" in case or in spelling only.                                *)
(***************************************************************************)
Paths == {"a.py", "A.py", "./a.py", "b.py"}

InitScope ==
  /\ \E allowed \in SUBSET Paths :
       manifest = [OneTask EXCEPT !.allowed_files = <<allowed>>]
  /\ args = RichArgs
  /\ rt = [t \in TaskIds |-> DefaultRuntime]
  /\ env = PlainWorker
  /\ quota = DefaultQuota
  /\ now = 0
  /\ quota_wait_announced_until = 0
  /\ running = <<>>
  /\ pc = "gate"
  /\ reap_queue = <<>>
  /\ finished_ids = <<>>
  /\ now_ts = 0
  /\ capacity = 0
  /\ ready_slice = <<>>
  /\ launch_idx = 1
  /\ call = NoCall
  /\ events = <<>>
  /\ exit_code = None
  /\ payload = <<>>
  /\ text = <<>>
  /\ state_file = NoStateFile

\* The call: ok is the value returned.
WithinAllowedFiles ==
  /\ pc = "gate"
  /\ \E changed_files \in SUBSET Paths :
       call' = [Call("within_allowed_files", 1, None, FALSE,
                     within_allowed_files(changed_files, manifest.allowed_files[1]),
                     FALSE)
                  EXCEPT !.changed = changed_files]
  /\ pc' = "gated"
  /\ UNCHANGED <<state_file, text, payload, args, manifest, env, rt, quota,
                 quota_wait_announced_until, running, now, reap_queue, finished_ids,
                 now_ts, capacity, ready_slice, launch_idx, events, exit_code>>

SpecScope == InitScope /\ [][WithinAllowedFiles]_vars

(***************************************************************************)
(* Properties.                                                             *)
(***************************************************************************)

\* launch_task is the only place that increments attempts.
Launched(t) == rt'[t].attempts = rt[t].attempts + 1

HasEvent(evs, tag) == \E i \in 1..Len(evs) : evs[i].event = tag

\* C1: Dependency safety.  Whenever a step launches a task (dry-run launches
\* included) the task was pending, every task in its depends_on was completed,
\* and its next_eligible_at was unset or not in the future.
C1_DependencySafety ==
  [][\A t \in TaskIds :
       Launched(t) =>
         /\ rt[t].status = "pending"
         /\ \A d \in DepSet(t) : rt[d].status = "completed"
         /\ (rt[t].next_eligible_at = None \/ now >= rt[t].next_eligible_at)]_vars

C1_Witness ==
  \E t \in TaskIds :
    /\ DepSet(t) # {}
    /\ call.op = "launch"
    /\ call.task = t
    /\ rt[t].attempts >= 1

\* C2: Global quota cooldown.  In an iteration whose cooldown_until exceeds the
\* iteration's timestamp the launch list is empty and no task is launched,
\* whatever number of slots is free.
C2_CooldownSuppressesLaunches ==
  [][/\ (pc' = "launch" /\ quota'.cooldown_until > now_ts') => ready_slice' = <<>>
     /\ \A t \in TaskIds : Launched(t) => ~(quota.cooldown_until > now_ts)]_vars

C2_Witness ==
  /\ pc = "launch"
  /\ call.op = "plan"
  /\ quota.cooldown_until > now_ts
  /\ Len(running) < args.max_parallel
  /\ \E t \in TaskIds : task_ready(rt, t, now_ts)
  /\ ready_slice = <<>>

\* The workers this iteration has added to running so far.
AddedThisIteration ==
  Cardinality({i \in 1..Min(launch_idx - 1, Len(ready_slice)) :
                 \E j \in 1..Len(running) : running[j] = ready_slice[i]})

\* C3: Bounded parallelism.  The number of tracked workers never exceeds
\* max_parallel, and the number of tasks an iteration launches is at most
\* max(max_parallel - workers still running after reaping, 0).
C3_BoundedParallelism ==
  /\ Len(running) <= args.max_parallel
  /\ pc = "launch" =>
       Len(ready_slice) <=
         Max(args.max_parallel - (Len(running) - AddedThisIteration), 0)

C3_Witness ==
  /\ pc = "launch"
  /\ ready_slice # <<>>
  /\ launch_idx > Len(ready_slice)
  /\ Len(running) = args.max_parallel
  /\ \E t \in TaskIds : task_ready(rt, t, now)

\* C4: --max-attempts bounds the launch attempts of every task: attempts never
\* exceeds max_attempts.  (Violated: a quota retry is granted without looking
\* at attempts.)
C4_AttemptsWithinMaxAttempts ==
  \A t \in TaskIds : rt[t].attempts <= args.max_attempts

\* C5: Scope containment.  Every completed task has last_changed_files inside
\* its allowed_files, unless its allowed_files is empty.
C5_ScopeContainment ==
  \A t \in TaskIds :
    rt[t].status = "completed" =>
      \/ manifest.allowed_files[t] = {}
      \/ rt[t].last_changed_files \subseteq manifest.allowed_files[t]

C5_Witness ==
  \E t \in TaskIds :
    /\ rt[t].status = "completed"
    /\ ~args.dry_run
    /\ manifest.allowed_files[t] # {}
    /\ rt[t].last_changed_files # {}

\* C6: Outside dry-run a task becomes completed only in a reap of its own worker
\* with exit code 0, a passed scope gate and a successful validation; a failed
\* validation leaves the task pending or blocked through the retry/block policy;
\* on completion last_failure_kind and last_error are cleared and both level
\* counters are 0.
C6_CompletionOnlyAfterValidation ==
  [][/\ \A t \in TaskIds :
          (rt[t].status # "completed" /\ rt'[t].status = "completed") =>
            /\ ~args.dry_run =>
                 /\ call'.op = "reap"
                 /\ call'.task = t
                 /\ call'.returncode = 0
                 /\ (manifest.allowed_files[t] = {}
                       \/ call'.changed \subseteq manifest.allowed_files[t])
                 /\ call'.validated
                 /\ call'.ok
                 /\ ~call'.raised
            /\ rt'[t].last_failure_kind = "none"
            /\ rt'[t].last_error = NoMsg
            /\ rt'[t].compile_failures_level = 0
            /\ rt'[t].runtime_failures_level = 0
     /\ (call'.op = "reap" /\ call'.validated /\ ~call'.ok) =>
          /\ rt'[call'.task].status \in {"pending", "blocked"}
          /\ HasEvent(events', "task_retry") \/ HasEvent(events', "task_blocked")]_vars

C6_Witness ==
  /\ ~args.dry_run
  /\ call.op = "reap"
  /\ call.validated
  /\ call.ok
  /\ rt[call.task].status = "completed"
  /\ rt[call.task].attempts >= 2

\* The scope gate's failing case, on the inputs of a reap.
ScopeViolated(t, changed) ==
  manifest.allowed_files[t] # {} /\ ~(changed \subseteq manifest.allowed_files[t])

\* C7: Terminal blocks at reap.  When the handler sees exit code 0 and the task
\* has no worktree path, or a changed file lies outside a non-empty
\* allowed_files, the task becomes blocked with the reason of its case (the
\* scope reason lists exactly the changed files not allowed), validation is not
\* run, no retry is scheduled, attempts, the failure counters, profile_index and
\* the quota state stay as they were; and a blocked task stays blocked and is
\* never launched again.
C7_TerminalBlocksAtReap ==
  [][/\ \A t \in TaskIds :
          (/\ call'.op = "reap"
           /\ call'.task = t
           /\ call'.returncode = 0
           /\ (rt[t].worktree_path = None \/ ScopeViolated(t, call'.changed)))
          => /\ rt'[t].status = "blocked"
             /\ rt'[t].block_reason =
                  (IF rt[t].worktree_path = None
                   THEN Msg("missing worktree path after worker exit", None, "", {})
                   ELSE Msg("scope gate failed (disallowed files)", None, "",
                            call'.changed \ manifest.allowed_files[t]))
             /\ ~call'.validated
             /\ ~HasEvent(events', "task_retry")
             /\ rt'[t].attempts = rt[t].attempts
             /\ rt'[t].profile_index = rt[t].profile_index
             /\ rt'[t].compile_failures_total = rt[t].compile_failures_total
             /\ rt'[t].runtime_failures_total = rt[t].runtime_failures_total
             /\ rt'[t].quota_failures_total = rt[t].quota_failures_total
             /\ rt'[t].other_failures_total = rt[t].other_failures_total
             /\ rt'[t].compile_failures_level = rt[t].compile_failures_level
             /\ rt'[t].runtime_failures_level = rt[t].runtime_failures_level
             /\ quota' = quota
     /\ \A t \in TaskIds :
          rt[t].status = "blocked" =>
            rt'[t].status = "blocked" /\ rt'[t].attempts = rt[t].attempts]_vars

C7_Witness ==
  /\ call.op = "reap"
  /\ call.returncode = 0
  /\ ScopeViolated(call.task, call.changed)
  /\ rt[call.task].status = "blocked"
  /\ rt[call.task].block_reason.tag = "scope gate failed (disallowed files)"
  /\ rt[call.task].attempts < args.max_attempts

\* C8 as stated: cooldown_until never decreases, whatever the transition.
\* (Violated: the dispatch loop clears an expired cooldown to 0.)
C8_CooldownNeverDecreases ==
  [][quota'.cooldown_until >= quota.cooldown_until]_vars

\* C8, amended: cooldown_until never decreases, except that the dispatch loop's
\* bookkeeping resets it to 0 once it has expired (now >= cooldown_until > 0).
C8_CooldownDecreasesOnlyOnExpiry ==
  [][\/ quota'.cooldown_until >= quota.cooldown_until
     \/ /\ call'.op = "plan"
        /\ quota'.cooldown_until = 0
        /\ quota.cooldown_until > 0
        /\ now >= quota.cooldown_until
        /\ HasEvent(events', "quota_resume")]_vars

C8_Witness ==
  /\ call.op = "plan"
  /\ HasEvent(events, "quota_resume")
  /\ quota.cooldown_until = 0
  /\ quota.total_failures >= 1

\* C9: activate_quota_cooldown never shortens a window.  After a call
\* cooldown_until is max(previous cooldown_until, now + cooldown_seconds), the
\* call returns that value, last_detected_at is now, total_failures has grown by
\* exactly one, and exactly one quota_cooldown event was emitted.
C9_ActivateNeverShortens ==
  [][call'.op = "activate_quota_cooldown" =>
       /\ quota'.cooldown_until =
            Max(quota.cooldown_until, now + args.quota_cooldown_seconds)
       /\ quota'.cooldown_until >= quota.cooldown_until
       /\ call'.ret = quota'.cooldown_until
       /\ quota'.last_detected_at = now
       /\ quota'.total_failures = quota.total_failures + 1
       /\ events' = <<Ev("quota_cooldown", call'.task)>>]_vars

C9_Witness ==
  /\ call.op = "activate_quota_cooldown"
  /\ call.ret > now + args.quota_cooldown_seconds
  /\ quota.cooldown_until = call.ret
  /\ quota.total_failures = 1

\* C10: Escalation monotonicity.  For every task profile_index never decreases
\* and always lies in 0 .. len(ladder) - 1.
C10_EscalationMonotonicity ==
  [][\A t \in TaskIds :
       /\ 0 <= rt[t].profile_index
       /\ rt[t].profile_index <= args.profiles - 1
       /\ 0 <= rt'[t].profile_index
       /\ rt'[t].profile_index <= args.profiles - 1
       /\ rt'[t].profile_index >= rt[t].profile_index]_vars

C10_Witness ==
  \E t \in TaskIds :
    /\ rt[t].profile_index = args.profiles - 1
    /\ rt[t].profile_index > 0
    /\ rt[t].compile_failures_level >= args.escalate_after_compile

\* The escalation events among the events of a step.
Escalations(evs) == {i \in 1..Len(evs) : evs[i].event = "escalation"}

\* C11: Escalation rule.  A step that routes a failure of a task through the
\* policy engine advances the task's profile_index by exactly one, resets both
\* level counters and emits one escalation event if and only if the kind is
\* compile (resp. runtime), the level counter of that kind, counting this
\* failure, has reached its threshold, and a higher profile exists; otherwise,
\* for a quota failure in particular, profile_index is unchanged and no
\* escalation event is emitted.  No other step changes a profile_index.
C11_EscalationRule ==
  [][\A t \in TaskIds :
       IF call'.kind # "" /\ call'.task = t
       THEN LET k == call'.kind
                due ==
                  /\ \/ (k = "compile"
                           /\ rt[t].compile_failures_level + 1 >= args.escalate_after_compile)
                     \/ (k = "runtime"
                           /\ rt[t].runtime_failures_level + 1 >= args.escalate_after_runtime)
                  /\ rt[t].profile_index < args.profiles - 1
            IN IF due
               THEN /\ rt'[t].profile_index = rt[t].profile_index + 1
                    /\ rt'[t].compile_failures_level = 0
                    /\ rt'[t].runtime_failures_level = 0
                    /\ Cardinality(Escalations(events')) = 1
               ELSE /\ rt'[t].profile_index = rt[t].profile_index
                    /\ Escalations(events') = {}
       ELSE rt'[t].profile_index = rt[t].profile_index]_vars

C11_Witness ==
  /\ call.kind = "runtime"
  /\ args.escalate_after_runtime = 2
  /\ Cardinality(Escalations(events)) = 1
  /\ rt[call.task].profile_index = 1
  /\ rt[call.task].runtime_failures_level = 0
  /\ rt[call.task].runtime_failures_total = 2

\* C12: Attempt monotonicity.  A step that launches a task (dry-run launches,
\* launches that fail in worktree setup or spawn, and a launch cut short by an
\* operator interrupt included) raises that
\* task's attempts by exactly one; every other step, and a launch for every
\* other task, leaves attempts as it was.
C12_AttemptMonotonicity ==
  [][\A t \in TaskIds :
       IF call'.op \in {"launch", "interrupt"} /\ call'.task = t
       THEN /\ rt[t].status = "pending"
            /\ rt'[t].attempts = rt[t].attempts + 1
       ELSE rt'[t].attempts = rt[t].attempts]_vars

C12_Witness ==
  /\ call.op = "launch"
  /\ call.raised
  /\ rt[call.task].attempts = 2
  /\ \E t \in TaskIds : args.dry_run = FALSE /\ rt[t].status = "blocked"

\* C13: Quota failure without fail-fast.  Routing a quota failure of a task
\* raises the task's quota_failures_total and the orchestrator's
\* total_failures by one and zeroes both level counters; the task is then
\* blocked if its quota_failures_total has reached
\* quota_max_failures_per_task, and otherwise pending with next_eligible_at
\* equal to the updated cooldown_until, a task_retry event being emitted.
C13_QuotaRetryOrBlock ==
  [][(call'.kind = "quota" /\ ~args.quota_fail_fast) =>
       LET t == call'.task IN
       /\ rt'[t].quota_failures_total = rt[t].quota_failures_total + 1
       /\ quota'.total_failures = quota.total_failures + 1
       /\ quota'.cooldown_until =
            Max(quota.cooldown_until, now + args.quota_cooldown_seconds)
       /\ rt'[t].compile_failures_level = 0
       /\ rt'[t].runtime_failures_level = 0
       /\ IF rt[t].quota_failures_total + 1 >= args.quota_max_failures_per_task
          THEN /\ rt'[t].status = "blocked"
               /\ ~HasEvent(events', "task_retry")
          ELSE /\ rt'[t].status = "pending"
               /\ rt'[t].next_eligible_at = quota'.cooldown_until
               /\ HasEvent(events', "task_retry")]_vars

C13_Witness ==
  /\ call.kind = "quota"
  /\ ~args.quota_fail_fast
  /\ rt[call.task].status = "pending"
  /\ rt[call.task].next_eligible_at = quota.cooldown_until
  /\ quota.cooldown_until > now
  /\ HasEvent(events, "task_retry")

\* C14: Quota fail-fast.  With fail-fast enabled, routing a quota failure of a
\* task blocks that task and every task pending at that moment, all with the
\* same reason, sets cooldown_until to max(previous, now + cooldown_seconds),
\* emits quota_fail_fast, and leaves every running or completed task as it was.
C14_QuotaFailFast ==
  [][(call'.kind = "quota" /\ args.quota_fail_fast) =>
       LET t == call'.task IN
       /\ rt'[t].status = "blocked"
       /\ rt'[t].block_reason.tag = "quota fail-fast"
       /\ quota'.cooldown_until =
            Max(quota.cooldown_until, now + args.quota_cooldown_seconds)
       /\ HasEvent(events', "quota_fail_fast")
       /\ \A u \in TaskIds \ {t} :
            IF rt[u].status = "pending"
            THEN /\ rt'[u].status = "blocked"
                 /\ rt'[u].block_reason = rt'[t].block_reason
            ELSE rt'[u] = rt[u]]_vars

C14_Witness ==
  /\ call.kind = "quota"
  /\ args.quota_fail_fast
  /\ \E u \in TaskIds \ {call.task} :
       /\ rt[u].status = "blocked"
       /\ rt[u].block_reason = rt[call.task].block_reason
       /\ rt[u].attempts >= 1

\* C15: Termination condition and exit code.  At the end of an iteration the
\* loop exits normally if every task is completed or blocked and no worker is
\* running; it exits normally only then, never with a task pending or running;
\* the exit code of a normal exit is 0 if no task is blocked and 1 otherwise.
C15_TerminationAndExitCode ==
  [][/\ (call'.op = "persist" /\ all_done(rt) /\ running = <<>>) => pc' = "done"
     /\ (pc # "done" /\ pc' = "done") =>
          /\ call'.op = "persist"
          /\ running' = <<>>
          /\ \A t \in TaskIds : rt'[t].status \in {"completed", "blocked"}
          /\ exit_code' = (IF \E t \in TaskIds : rt'[t].status = "blocked"
                           THEN 1 ELSE 0)
     /\ pc = "done" => UNCHANGED vars]_vars

C15_Witness ==
  /\ pc = "done"
  /\ exit_code = 1
  /\ \E t \in TaskIds : rt[t].status = "completed"
  /\ \E t \in TaskIds : rt[t].status = "blocked"

\* The entry of a task in the state file.
EntryOf(file, t) == file.tasks[CHOOSE i \in 1..Len(file.tasks) : file.tasks[i].id = t]

\* C16: Final disposition is persisted.  When the loop has exited normally the
\* state file holds, for every task, the task's final status (completed or
\* blocked) and a block_reason if it is blocked, and summary.blocked is 0
\* exactly when the exit code is 0.  (Violated: dependents blocked by the
\* propagation that follows write_state are persisted as pending.)
C16_FinalDispositionPersisted ==
  pc = "done" =>
    /\ state_file.exists
    /\ \A t \in TaskIds :
         /\ \E i \in 1..Len(state_file.tasks) : state_file.tasks[i].id = t
         /\ EntryOf(state_file, t).status = rt[t].status
         /\ EntryOf(state_file, t).status \in {"completed", "blocked"}
         /\ EntryOf(state_file, t).status = "blocked" =>
              EntryOf(state_file, t).block_reason # NoMsg
    /\ (state_file.summary.blocked = 0) <=> (exit_code = 0)

\* write_state followed by restore_runtime_state onto freshly loaded tasks.
RoundTrip ==
  restore_runtime_state(write_state(rt, quota, running, args),
                        [t \in TaskIds |-> DefaultRuntime], DefaultQuota, args)

Resumed(r) ==
  LET kept == [r EXCEPT !.started_at = None,
                        !.compile_failures_level = 0,
                        !.runtime_failures_level = 0]
  IN IF r.status = "running"
     THEN [kept EXCEPT !.status = "pending",
                       !.last_error = with_stale_note(r.last_error),
                       !.last_failure_kind =
                         IF r.last_failure_kind = "none" THEN "infra"
                         ELSE r.last_failure_kind]
     ELSE kept

Restored ==
  restore_runtime_state(state_file, [t \in TaskIds |-> DefaultRuntime],
                        DefaultQuota, args)

\* C18: Resume demotion.  For every state file the loop has written, every
\* task whose entry has status running is restored with status pending,
\* last_failure_kind "infra", a last_error that is the stale-running note,
\* placed after the entry's last_error if it had one, and the entry's
\* attempts.  (Violated: a last_failure_kind the entry carries is kept.)
C18_ResumeDemotion ==
  state_file.exists =>
    \A i \in 1..Len(state_file.tasks) :
      LET e == state_file.tasks[i]
          r == Restored.rt[e.id]
      IN e.status = "running" =>
           /\ r.status = "pending"
           /\ r.last_failure_kind = "infra"
           /\ r.last_error.tag = StaleNote
           /\ e.last_error # NoMsg => r.last_error.after = e.last_error
           /\ r.attempts = e.attempts

\* The workers spawned and not yet reaped by the loop.
Unreaped ==
  {t \in TaskIds : /\ \E i \in 1..Len(running) : running[i] = t
                   /\ ~\E i \in 1..Len(finished_ids) : finished_ids[i] = t}

\* C19: Operator interrupt.  Wherever the interrupt arrives, the tasks of the
\* workers spawned and not yet reaped become blocked with reason
\* "orchestrator interrupted by operator", the state written has no task in
\* status running, the tasks that were pending, completed or blocked keep
\* their status, and the exit code is 130.  (Violated: a task already reaped in
\* the current pass is blocked again, and a task whose launch is under way
\* stays running.)
C19_OperatorInterrupt ==
  [][call'.op = "interrupt" =>
       /\ exit_code' = 130
       /\ \A t \in Unreaped :
            /\ rt'[t].status = "blocked"
            /\ rt'[t].block_reason.tag = "orchestrator interrupted by operator"
       /\ state_file'.exists
       /\ state_file'.summary.running = 0
       /\ \A i \in 1..Len(state_file'.tasks) : state_file'.tasks[i].status # "running"
       /\ \A t \in TaskIds :
            rt[t].status \in {"pending", "completed", "blocked"} =>
              rt'[t].status = rt[t].status]_vars

\* C20: Per-task fault containment.  An exception raised while the loop
\* handles one task is caught and routed as an infra failure of that task, and
\* the loop goes on; no such fault ends the loop.  (Violated: an exception
\* leaving terminate_process for a timed-out worker is not caught.)
C20_FaultContainment ==
  [][call'.raised =>
       /\ pc' = pc
       /\ call'.kind = "infra"
       /\ rt'[call'.task].last_failure_kind = "infra"
       /\ rt'[call'.task].status \in {"pending", "blocked"}]_vars

\* Position of task t in the list of tasks chosen for launch (0 if absent).
SlicePos(slice, t) ==
  IF \E i \in 1..Len(slice) : slice[i] = t
  THEN CHOOSE i \in 1..Len(slice) : slice[i] = t
  ELSE 0

\* C21: Launch order.  The tasks chosen for launch in an iteration are in
\* ascending task_id order and are a prefix of the ready tasks sorted by
\* task_id: every task ready at selection time with a smaller id than a chosen
\* task is chosen and comes before it.  The launches of the iteration follow
\* that list one by one, from its head.
C21_LaunchOrder ==
  [][/\ call'.op = "plan" =>
          /\ \A i, j \in 1..Len(ready_slice') :
                i < j => ready_slice'[i] < ready_slice'[j]
          /\ \A i \in 1..Len(ready_slice') : task_ready(rt', ready_slice'[i], now)
          /\ \A i \in 1..Len(ready_slice') : \A t \in TaskIds :
                (task_ready(rt', t, now) /\ t < ready_slice'[i]) =>
                  (SlicePos(ready_slice', t) > 0 /\ SlicePos(ready_slice', t) < i)
     /\ call'.op = "launch" =>
          /\ call'.task = ready_slice[launch_idx]
          /\ rt'[call'.task].attempts = rt[call'.task].attempts + 1
          /\ \A i \in 1..(launch_idx - 1) :
                /\ ready_slice[i] < call'.task
                /\ rt[ready_slice[i]].started_at # None
                /\ rt[ready_slice[i]].started_at >= now_ts
          /\ \A i \in (launch_idx + 1)..Len(ready_slice) :
                /\ rt'[ready_slice[i]].status = "pending"
                /\ rt'[ready_slice[i]].attempts = rt[ready_slice[i]].attempts
          /\ launch_idx' = launch_idx + 1
          /\ ready_slice' = ready_slice]_vars

\* The second of two launches of one iteration, the manifest listing the
\* second-launched task first.
C21_Witness ==
  /\ call.op = "launch"
  /\ launch_idx = 3
  /\ ready_slice = <<1, 2>>
  /\ manifest.order = <<2, 1>>
  /\ call.task = 2

\* C22: Dry-run.  In dry-run mode the running set stays empty; each launch
\* takes its task directly to completed with attempts one higher; a task is
\* launched only when each of its dependencies was completed in an earlier
\* iteration (none of them is among the launches of the current one); and a
\* run started from fresh task state that exits has every task completed with
\* attempts 1, summary.completed equal to the number of tasks in the state
\* file, and exit code 0.
C22_DryRun ==
  [][args.dry_run =>
       /\ running' = <<>>
       /\ call'.op = "launch" =>
            LET t == call'.task
            IN /\ rt'[t].status = "completed"
               /\ rt'[t].attempts = rt[t].attempts + 1
               /\ HasEvent(events', "task_completed")
               /\ ~HasEvent(events', "task_launched")
               /\ \A d \in DepSet(t) :
                    /\ rt[d].status = "completed"
                    /\ SlicePos(ready_slice, d) = 0
       /\ pc' = "done" =>
            /\ \A t \in TaskIds : rt'[t].status = "completed" /\ rt'[t].attempts = 1
            /\ state_file'.exists
            /\ state_file'.summary.completed = Cardinality(TaskIds)
            /\ \A t \in TaskIds : EntryOf(state_file', t).status = "completed"
            /\ exit_code' = 0]_vars

\* A dry run of the three-task chain has exited.
C22_Witness ==
  /\ args.dry_run
  /\ manifest = Chain
  /\ pc = "done"
  /\ exit_code = 0
  /\ \A t \in TaskIds : rt[t].attempts = 1

\* Some marker of the set occurs in the text, letter case aside.
Occurs(markers, txt) ==
  \E m \in markers : \E i \in 1..Len(txt) :
    /\ i + Len(m) - 1 <= Len(txt)
    /\ \A k \in 1..Len(m) : txt[i + k - 1].s = m[k]

QuotaNeedles == {indicators[i].needle : i \in 1..Len(indicators)}

\* C23: Failure classification.  classify_failure returns the first kind in
\* the order quota, compile, runtime, test, infra one of whose markers occurs
\* in the text, letter case aside, and unknown if none does; a text with a
\* quota marker is classified quota whatever other markers it holds.
C23_FailureClassification ==
  pc = "classified" =>
    /\ call.kind \in FailureKinds
    /\ call.kind =
         (IF Occurs(QuotaNeedles, text) THEN "quota"
          ELSE IF Occurs(compile_markers, text) THEN "compile"
          ELSE IF Occurs(runtime_markers, text) THEN "runtime"
          ELSE IF Occurs(test_markers, text) THEN "test"
          ELSE IF Occurs(infra_markers, text) THEN "infra"
          ELSE "unknown")
    /\ Occurs(QuotaNeedles, text) => call.kind = "quota"

\* A text with a compile marker, then a quota marker in upper case.
C23_Witness ==
  /\ pc = "classified"
  /\ Len(text) = 2
  /\ text[1] = [s |-> "failed to compile", up |-> FALSE]
  /\ text[2] = [s |-> "insufficient_quota", up |-> TRUE]
  /\ call.kind = "quota"

C25_LevelCountersReset ==
  [][call'.kind # "" =>
       /\ call'.kind # "compile" => rt'[call'.task].compile_failures_level = 0
       /\ call'.kind # "runtime" => rt'[call'.task].runtime_failures_level = 0]_vars

\* C26: Retry versus block for non-quota failures.  When a failure of a kind
\* other than quota is routed, the task is blocked with reason "max attempts
\* reached (<attempts>). Last failure kind=<kind>" if its attempts have reached
\* max_attempts, and otherwise becomes pending with next_eligible_at unset and
\* a task_retry event; the quota runtime and the task's quota failure count
\* are unchanged.
C26_RetryOrBlockNonQuota ==
  [][(call'.kind # "" /\ call'.kind # "quota") =>
       LET t == call'.task
       IN /\ IF rt'[t].attempts >= args.max_attempts
             THEN /\ rt'[t].status = "blocked"
                  /\ rt'[t].block_reason =
                       Msg("max attempts reached", rt'[t].attempts, call'.kind, {})
                  /\ HasEvent(events', "task_blocked")
                  /\ ~HasEvent(events', "task_retry")
             ELSE /\ rt'[t].status = "pending"
                  /\ rt'[t].next_eligible_at = None
                  /\ HasEvent(events', "task_retry")
                  /\ ~HasEvent(events', "task_blocked")
          /\ rt'[t].last_failure_kind = call'.kind
          /\ quota' = quota
          /\ rt'[t].quota_failures_total = rt[t].quota_failures_total]_vars

\* A second non-quota failure has blocked a task that the first had sent back
\* to pending.
C26_Witness ==
  /\ call.op = "reap"
  /\ call.kind = "runtime"
  /\ rt[call.task].attempts = 2
  /\ args.max_attempts = 2
  /\ rt[call.task].status = "blocked"
  /\ rt[call.task].block_reason = Msg("max attempts reached", 2, "runtime", {})
  /\ rt[call.task].compile_failures_total = 1

\* C27: Attempt bound.  In a run started from fresh task state every task's
\* attempts stay at or below max_attempts + quota_max_failures_per_task - 1,
\* and at or below max_attempts when quota fail-fast is enabled.
C27_AttemptBound ==
  \A t \in TaskIds :
    /\ rt[t].attempts <= args.max_attempts + args.quota_max_failures_per_task - 1
    /\ args.quota_fail_fast => rt[t].attempts <= args.max_attempts

\* A task launched more often than max_attempts, up to the bound: a quota
\* failure on its last regular attempt was retried.
C27_Witness ==
  \E t \in TaskIds :
    /\ rt[t].attempts = args.max_attempts + args.quota_max_failures_per_task - 1
    /\ rt[t].attempts > args.max_attempts
    /\ rt[t].quota_failures_total = 1
    /\ call.op = "launch"
    /\ call.task = t

\* C28: Persisted snapshots are at the dependency-block fixpoint.  In every
\* state file the loop writes at the end of an iteration no task with status
\* pending has a dependency with status blocked.  (Violated: a task blocked by
\* a launch failure is written with its dependents still pending.)
C28_SnapshotAtFixpoint ==
  [][call'.op = "persist" =>
       \A i \in 1..Len(state_file'.tasks) :
         state_file'.tasks[i].status = "pending" =>
           \A d \in DepSet(state_file'.tasks[i].id) :
             EntryOf(state_file', d).status # "blocked"]_vars

\* C29: propagate_dependency_blocks reaches the fixpoint.  For every
\* dependency graph the call returns, and then no pending task has a blocked
\* dependency; each task it blocked was pending and has the reason
\* "dependency <dep_id> is blocked" for one of its blocked dependencies, with
\* one task_blocked event per task it blocked; every other task is unchanged.
C29_PropagateFixpoint ==
  [][call'.op = "propagate_dependency_blocks" =>
       /\ \A t \in TaskIds :
            rt'[t].status = "pending" =>
              \A d \in DepSet(t) : rt'[d].status # "blocked"
       /\ \A t \in TaskIds :
            \/ rt'[t] = rt[t]
            \/ /\ rt[t].status = "pending"
               /\ rt'[t].status = "blocked"
               /\ \E d \in DepSet(t) :
                    /\ rt'[d].status = "blocked"
                    /\ rt'[t].block_reason = Msg("dependency is blocked", d, "", {})
                    /\ rt'[t] = [rt[t] EXCEPT !.status = "blocked",
                                              !.block_reason = rt'[t].block_reason,
                                              !.last_error = rt'[t].block_reason]
       /\ Len(events') = Cardinality({t \in TaskIds : rt'[t] # rt[t]})
       /\ \A i \in 1..Len(events') :
            events'[i].event = "task_blocked" /\ rt'[events'[i].task_id] # rt[events'[i].task_id]]_vars

\* A block has travelled down a chain of two dependencies that the dict order
\* visits from its far end: 1 was blocked after 2, in a second pass.
C29_Witness ==
  /\ pc = "propagated"
  /\ manifest.depends_on = << <<2>>, <<3>>, <<>> >>
  /\ rt[3].status = "blocked" /\ rt[3].block_reason = NoMsg
  /\ rt[2].block_reason = Msg("dependency is blocked", 3, "", {})
  /\ rt[1].block_reason = Msg("dependency is blocked", 2, "", {})
  /\ events = <<Ev("task_blocked", 2), Ev("task_blocked", 1)>>

\* C30: Terminal statuses are absorbing.  Once a task is completed or blocked
\* it is not launched again and its status, attempts and profile_index do not
\* change for the rest of the run.  (Violated: the interrupt handler blocks a
\* task that the current reap pass has completed and that is still in the
\* running dict.)
C30_TerminalAbsorbing ==
  [][\A t \in TaskIds :
       rt[t].status \in {"completed", "blocked"} =>
         /\ rt'[t].status = rt[t].status
         /\ rt'[t].attempts = rt[t].attempts
         /\ rt'[t].profile_index = rt[t].profile_index
         /\ ~(call'.op = "launch" /\ call'.task = t)]_vars

\* The keys of the running dict.
RunningIds == {running[i] : i \in 1..Len(running)}

\* C31: Running-set consistency.  Whenever the loop persists state at the end
\* of an iteration, the tasks with status running are exactly the keys of the
\* running dict, so the file's summary.running is the number of workers held
\* and an entry's pid is set exactly when its status is running.
C31_RunningSetConsistency ==
  [][call'.op = "persist" =>
       /\ {t \in TaskIds : rt[t].status = "running"} = RunningIds
       /\ Cardinality(RunningIds) = Len(running)
       /\ state_file'.summary.running = Len(running)
       /\ \A i \in 1..Len(state_file'.tasks) :
            (state_file'.tasks[i].pid # None) <=>
              (state_file'.tasks[i].status = "running")]_vars

\* A state written with one worker held while another task has been reaped
\* and completed.
C31_Witness ==
  /\ call.op = "persist"
  /\ Len(running) = 1
  /\ state_file.summary.running = 1
  /\ state_file.summary.completed = 1
  /\ EntryOf(state_file, running[1]).pid # None

\* C32: block_reason is set iff the task is blocked.  In every reachable state
\* of a run started from fresh task state every task has a block_reason
\* exactly when its status is blocked; the same holds of every entry of the
\* state file the run has written and of the runtimes restored from it.
C32_BlockReasonIffBlocked ==
  /\ \A t \in TaskIds : (rt[t].block_reason # NoMsg) <=> (rt[t].status = "blocked")
  /\ state_file.exists =>
       /\ \A i \in 1..Len(state_file.tasks) :
            (state_file.tasks[i].block_reason # NoMsg) <=>
              (state_file.tasks[i].status = "blocked")
       /\ \A t \in TaskIds :
            (Restored.rt[t].block_reason # NoMsg) <=> (Restored.rt[t].status = "blocked")

\* A written state with a blocked task, restored with its reason, beside a
\* task that is not blocked.
C32_Witness ==
  /\ state_file.exists
  /\ \E t, u \in TaskIds :
       /\ rt[t].status = "blocked"
       /\ rt[t].block_reason.tag = "max attempts reached"
       /\ Restored.rt[t].block_reason = rt[t].block_reason
       /\ rt[u].status = "running"
       /\ rt[u].block_reason = NoMsg
       /\ Restored.rt[u].status = "pending"

\* C33: Quota fail-fast winds the run down.  With quota fail-fast enabled, in
\* a run started without quota failures, no task is launched once a quota
\* failure has been processed.  (Violated: a worker that was running when the
\* quota failure was processed and later fails for another reason is set back
\* to pending and launched again.)
C33_NoLaunchAfterFailFast ==
  [][(args.quota_fail_fast /\ quota.total_failures >= 1) =>
       ~(call'.op = "launch")]_vars

\* The tasks a task waits for, directly or through other tasks.
RECURSIVE Ancestors(_, _)
Ancestors(S, n) ==
  IF n = 0 THEN S
  ELSE Ancestors(S \cup UNION {DepSet(d) : d \in S}, n - 1)

DependsOnItself(t) == t \in Ancestors(DepSet(t), Cardinality(TaskIds))

\* C34: Task-set invariant after load.  Whenever load_manifest has returned,
\* every id in every task's depends_on names another task of the loaded set,
\* and no task waits for itself through a chain of dependencies.  (Violated:
\* load_manifest rejects only dependencies on unknown tasks.)
C34_TaskSetInvariant ==
  pc = "loaded" =>
    \A t \in TaskIds :
      /\ \A d \in DepSet(t) : d \in TaskIds /\ d # t
      /\ ~DependsOnItself(t)

\* C39: Per-task isolation of working copies.  For every loaded task set, two
\* distinct tasks never have the same recorded worktree path, nor the same
\* branch name.  (Violated: the path is the lower-cased id under the
\* worktrees root, and load_manifest keeps ids that differ only in case
\* apart.)
C39_WorktreeIsolation ==
  pc = "loaded" =>
    \A t, u \in TaskIds :
      t # u =>
        /\ (rt[t].worktree_path # None /\ rt[u].worktree_path # None) =>
             rt[t].worktree_path # rt[u].worktree_path
        /\ task_branch_name(t) # task_branch_name(u)

\* C35: Worker timeout versus exit.  Whenever the reap loop examines a running
\* task whose elapsed time exceeds a non-zero worker timeout, the step is the
\* timeout branch: no exit code is consumed, the attempt is routed as an infra
\* failure and the task is not completed by it; and with a worker timeout of 0
\* no step is a timeout.  (Violated: when terminate_process raises, nothing is
\* routed and the loop ends.)
C35_TimeoutVersusExit ==
  [][(pc = "reap" /\ call'.op \in {"timeout", "reap", "poll"}) =>
       LET t == Head(reap_queue)
       IN IF args.worker_timeout_seconds > 0 /\ rt[t].started_at # None
             /\ now - rt[t].started_at > args.worker_timeout_seconds
          THEN /\ call'.op = "timeout"
               /\ call'.returncode = None
               /\ call'.kind = "infra"
               /\ rt'[t].status \in {"pending", "blocked"}
          ELSE call'.op # "timeout"]_vars

\* C36: Level counters stay below their thresholds except at the top of the
\* ladder.  In every state of the dispatch loop, every task that is not at the
\* last profile of the ladder has compile_failures_level below
\* escalate_after_compile and runtime_failures_level below
\* escalate_after_runtime.
C36_LevelsBelowThresholds ==
  \A t \in TaskIds :
    \/ rt[t].profile_index = args.profiles - 1
    \/ /\ rt[t].compile_failures_level < args.escalate_after_compile
       /\ rt[t].runtime_failures_level < args.escalate_after_runtime

\* A compile failure has just escalated a task to a profile below the top of
\* a ladder of three, with both level counters back at 0.
C36_Witness ==
  /\ call.kind = "compile"
  /\ HasEvent(events, "escalation")
  /\ args.profiles = 3
  /\ rt[call.task].profile_index = 1
  /\ rt[call.task].compile_failures_total = 1
  /\ rt[call.task].compile_failures_level = 0
  /\ rt[call.task].runtime_failures_level = 0

\* The entries of a state file that name task t.
EntriesOf(file, t) == {i \in 1..Len(file.tasks) : file.tasks[i].id = t}

\* The last entry of a state file that names task t.
LastEntryOf(file, t) ==
  file.tasks[CHOOSE i \in EntriesOf(file, t) : \A j \in EntriesOf(file, t) : j <= i]

NamesLoadedTask(e) == e.id \in TaskIds

\* C37: Restore overlay frame.  After restore_runtime_state on freshly loaded
\* tasks: with no state file nothing has changed and resume_skip is emitted;
\* with a state file the runtimes are those of the loaded tasks and equal the
\* ones restored from the file without its entries for unknown ids, and every
\* loaded task without an entry is at its default runtime.
C37_RestoreOverlayFrame ==
  pc = "resumed" =>
    IF ~state_file.exists
    THEN /\ rt = [t \in TaskIds |-> DefaultRuntime]
         /\ quota = DefaultQuota
         /\ events = <<Ev("resume_skip", 0)>>
    ELSE /\ DOMAIN rt = TaskIds
         /\ rt = RestoreFrom(SelectSeq(state_file.tasks, NamesLoadedTask), 1,
                             [t \in TaskIds |-> DefaultRuntime], args)
         /\ \A t \in TaskIds :
              EntriesOf(state_file, t) = {} =>
                /\ rt[t] = DefaultRuntime
                /\ rt[t].status = "pending"
                /\ rt[t].attempts = 0
                /\ rt[t].profile_index = 0

\* A file with an entry for an unknown task and one for a loaded task has been
\* restored, and the other loaded task has no entry.
C37_Witness ==
  /\ pc = "resumed"
  /\ state_file.exists
  /\ Len(state_file.tasks) = 2
  /\ state_file.tasks[1].id \notin TaskIds
  /\ \E t, u \in TaskIds :
       /\ EntriesOf(state_file, t) = {2}
       /\ rt[t].status = "completed"
       /\ rt[t].attempts = 1
       /\ EntriesOf(state_file, u) = {}
       /\ rt[u] = DefaultRuntime

\* C38: Restored profile_index.  After restore_runtime_state, for every loaded
\* task named in the file, by its last entry: the profile_index is the ladder
\* index of the entry's profile when the ladder has it, otherwise the entry's
\* numeric profile_index clamped to [0, len(ladder) - 1], otherwise 0; and
\* every task's profile_index is within the ladder.
C38_RestoredProfileIndex ==
  (pc = "resumed" /\ state_file.exists) =>
    /\ \A t \in TaskIds :
         EntriesOf(state_file, t) # {} =>
           LET e == LastEntryOf(state_file, t)
               n == args.profiles
           IN rt[t].profile_index =
                IF "profile" \in DOMAIN e /\ \E i \in 1..n : Ladder(args)[i] = e.profile
                THEN (CHOOSE i \in 1..n : Ladder(args)[i] = e.profile) - 1
                ELSE IF "profile_index" \in DOMAIN e
                THEN (IF e.profile_index < 0 THEN 0
                      ELSE IF e.profile_index > n - 1 THEN n - 1
                      ELSE e.profile_index)
                ELSE 0
    /\ \A t \in TaskIds :
         0 <= rt[t].profile_index /\ rt[t].profile_index <= args.profiles - 1

\* One task restored by its profile against a different numeric index, the
\* other by a numeric index above the ladder.
C38_Witness ==
  /\ pc = "resumed"
  /\ state_file.exists
  /\ args.profiles = 3
  /\ Len(state_file.tasks) = 2
  /\ \E t, u \in TaskIds :
       /\ state_file.tasks[1].id = t
       /\ "profile" \in DOMAIN state_file.tasks[1]
       /\ state_file.tasks[1].profile = 103
       /\ "profile_index" \in DOMAIN state_file.tasks[1]
       /\ state_file.tasks[1].profile_index = 0
       /\ rt[t].profile_index = 2
       /\ state_file.tasks[2].id = u
       /\ u # t
       /\ "profile" \in DOMAIN state_file.tasks[2]
       /\ state_file.tasks[2].profile = 199
       /\ "profile_index" \in DOMAIN state_file.tasks[2]
       /\ state_file.tasks[2].profile_index = 5
       /\ rt[u].profile_index = 2

\* C40: Scope gate predicate.  within_allowed_files(changed, allowed) returns
\* true exactly when allowed is empty or every changed path is, as a string,
\* a member of allowed.
C40_ScopeGatePredicate ==
  call.op = "within_allowed_files" =>
    (call.ok <=> \/ manifest.allowed_files[1] = {}
                 \/ ~(\E path \in call.changed : path \notin manifest.allowed_files[1]))

\* A call that returns false because of a path that differs from an allowed
\* one in case only.
C40_Witness ==
  /\ call.op = "within_allowed_files"
  /\ manifest.allowed_files[1] = {"a.py", "b.py"}
  /\ call.changed = {"a.py", "A.py"}
  /\ ~call.ok

====
